---- MODULE Spec2Model ----
(***************************************************************************)
(* Model of the Tactical RMM Terraform provider: the three resource        *)
(* adapters (script, script snippet, keystore entry), the framework        *)
(* values they handle (null / unknown / known), the HTTP exchanges they    *)
(* issue and the remote collection they talk to.                           *)
(***************************************************************************)
EXTENDS Integers, Sequences, FiniteSets, TLC

VARIABLES
    kind,      \* which adapter the managed resource address belongs to
    plans,     \* the plans the resource's configuration can produce in this run
    unique,    \* whether the remote rejects a second record with the same name
    remote,    \* the remote collection of that kind, in the server's list order
    nextId,    \* the next identifier the server hands out
    faults,    \* how many exchanges have failed or raced so far
    state,     \* the Terraform state stored for the resource address
    diags,     \* the error diagnostics of the last operation
    reqs,      \* the HTTP exchanges of the last operation, in order
    op,        \* the last operation: its name, the id it addressed, what its POST created
    lastPlan,  \* the plan of the last successful Create/Update, while nothing else touched the record
    query,     \* the configuration the last data source read was given
    result,    \* the data source state the last data source read wrote
    settings,  \* the provider block and the environment of the run
    client,    \* the ClientConfig that Configure handed to the resources and data sources
    procs      \* the Creates that one apply runs side by side, each at its own step

vars == <<kind, plans, unique, remote, nextId, faults, state, diags, reqs, op, lastPlan,
          query, result, settings, client, procs>>

\* what the data source reads write and the resource handlers leave alone
dataVars == <<query, result>>

\* what the provider's Configure reads and writes
providerVars == <<settings, client>>

\* what the Creates of a parallel apply keep for themselves
concVars == <<procs>>

----------------------------------------------------------------------------
(* Bounds of the model *)

MaxId == 2        \* the server hands out the identifiers 1..MaxId
MaxFaults == 1    \* at most this many exchanges fail (transport, 5xx) or race in a run

----------------------------------------------------------------------------
(* Framework values: types.String / Int64 / Bool / List are null, unknown or known *)

Null == [k |-> "null"]
Unknown == [k |-> "unknown"]
Val(v) == [k |-> "val", v |-> v]

IsNull(x) == x.k = "null"
IsUnknown(x) == x.k = "unknown"
ValueString(x) == IF x.k = "val" THEN x.v ELSE ""
ValueInt64(x) == IF x.k = "val" THEN x.v ELSE 0
ValueBool(x) == IF x.k = "val" THEN x.v ELSE FALSE
ElementsAs(x) == IF x.k = "val" THEN x.v ELSE <<>>

Absent == [present |-> FALSE]
NoPlan == [none |-> TRUE]
Applied(by, data) == [by |-> by, data |-> data]
NoDiags == <<>>
Diag(msg, code) == <<[msg |-> msg, code |-> code]>>

----------------------------------------------------------------------------
(* JSON maps: a request body is a function from the keys it carries *)

Put(body, key, v) == (key :> v) @@ body
Has(body, key) == key \in DOMAIN body

JStr(s) == [t |-> "str", v |-> s]
JNum(n) == [t |-> "num", v |-> n]
JBool(b) == [t |-> "bool", v |-> b]
JArr(a) == [t |-> "arr", v |-> a]
JNull == [t |-> "null"]

\* Go's checked type assertions m[key].(string), .(float64), .(bool), .([]interface{})
IsStr(m, key) == Has(m, key) /\ m[key].t = "str"
IsNum(m, key) == Has(m, key) /\ m[key].t = "num"
IsBool(m, key) == Has(m, key) /\ m[key].t = "bool"
IsArr(m, key) == Has(m, key) /\ m[key].t = "arr"

----------------------------------------------------------------------------
(* The remote REST API: one collection per kind, records keyed by a         *)
(* server-assigned id, listed in insertion order                            *)

Kinds == {"script", "snippet", "keystore"}
Names == {"a", "b"}

DefaultTimeout == 90

\* What the server stores for a field the POST body does not carry
ServerDefault(key, blank) ==
    CASE key = "script_type" -> JStr("userdefined")
      [] key = "default_timeout" -> JNum(DefaultTimeout)
      [] key \in {"favorite", "hidden", "run_as_user"} -> JBool(FALSE)
      [] key \in {"args", "env_vars", "supported_platforms"} -> JArr(<<>>)
      [] key = "shell" -> JStr("powershell")
      [] OTHER -> blank

Fields(k) ==
    CASE k = "script" -> {"name", "shell", "script_body", "script_type", "description",
                          "category", "default_timeout", "favorite", "hidden", "run_as_user",
                          "args", "env_vars", "supported_platforms", "syntax"}
      [] k = "snippet" -> {"name", "desc", "code", "shell"}
      [] k = "keystore" -> {"name", "value"}

\* An unset optional string comes back as JSON null or as "", the server's choice
BlankDefaults(k, body) ==
    IF Fields(k) \subseteq DOMAIN body THEN {JNull} ELSE {JNull, JStr("")}

NewRecord(k, id, body, blank) ==
    [key \in Fields(k) \cup {"id"} |->
        IF key = "id" THEN JNum(id)
        ELSE IF Has(body, key) THEN body[key]
        ELSE ServerDefault(key, blank)]

\* PUT stores the fields it is sent and keeps every other field of the record
Merged(rec, body) ==
    [key \in DOMAIN rec |-> IF key # "id" /\ Has(body, key) THEN body[key] ELSE rec[key]]

\* the first index of a set of indices, 0 when there is none (a scan that breaks on a match)
FirstIndex(S) == IF S = {} THEN 0 ELSE CHOOSE i \in S : \A j \in S : i <= j

IndexOfId(list, id) == FirstIndex({i \in DOMAIN list : list[i]["id"] = JNum(id)})

NameTaken(list, name, exceptId) ==
    \E i \in DOMAIN list : list[i]["name"] = JStr(name) /\ list[i]["id"] # JNum(exceptId)

Without(list, id) == SelectSeq(list, LAMBDA e : e["id"] # JNum(id))

ReplaceAt(list, i, rec) == [list EXCEPT ![i] = rec]

\* An HTTP exchange as the adapter sees it: err is a transport error (no response)
(* The provider: its configuration and the client it hands out *)

DefaultEndpoint == "https://api.tactical-rmm.com"
NoClient == [none |-> TRUE]
NoEnv == [TRMM_ENDPOINT |-> "", TRMM_API_KEY |-> ""]

\* the provider block (endpoint, api_key: optional strings) and the environment
Explicit == [endpoint |-> Val("https://rmm.example"), api_key |-> Val("k"), env |-> NoEnv]
ProviderSettings ==
    {Explicit,
     [Explicit EXCEPT !.endpoint = Null],
     [Explicit EXCEPT !.endpoint = Val("")],
     [Explicit EXCEPT !.api_key = Null],
     [Explicit EXCEPT !.api_key = Val("")],
     [Explicit EXCEPT !.api_key = Null, !.env = [NoEnv EXCEPT !.TRMM_API_KEY = "e"]],
     [Explicit EXCEPT !.endpoint = Null, !.env = [NoEnv EXCEPT !.TRMM_ENDPOINT = "https://env.example"]]}

\* ConfigureRun handing out a client whatever the key
ConfigureRunAnyKey(s) ==
    LET endpoint == IF ValueString(s.endpoint) = "" THEN DefaultEndpoint ELSE ValueString(s.endpoint)
    IN  [diags |-> NoDiags, client |-> [BaseURL |-> endpoint, APIKey |-> ValueString(s.api_key)]]

\* trmmProvider.Configure: the diagnostics and the client it leaves
ConfigureRun(s) ==
    LET endpoint == IF ValueString(s.endpoint) = "" THEN DefaultEndpoint ELSE ValueString(s.endpoint)
        apiKey == ValueString(s.api_key)
    IN  IF apiKey = ""
        THEN [diags |-> Diag("Missing API Key", 0), client |-> NoClient]
        ELSE [diags |-> NoDiags, client |-> [BaseURL |-> endpoint, APIKey |-> apiKey]]

\* Do leaving the key header out
DoWithoutKey(c, req) == req @@ [key |-> "", content |-> "application/json", base |-> c.BaseURL]

\* ClientConfig.Do: the request goes out with the two headers set, to the client's base URL
Do(c, req) == req @@ [key |-> c.APIKey, content |-> "application/json", base |-> c.BaseURL]

Resp(err, status, body) == [err |-> err, status |-> status, body |-> body]
Undecodable == [t |-> "garbage"]
NoBody == <<>>
\* what the response body is: a JSON array, a JSON object, text, or nothing usable
BodyKind(resp) ==
    IF resp.err THEN "none"
    ELSE IF "t" \in DOMAIN resp.body THEN resp.body.t
    ELSE IF "id" \in DOMAIN resp.body THEN "object"
    ELSE "none"
Req(method, id, body, resp) ==
    Do(client, [method |-> method, id |-> id, body |-> body,
                status |-> IF resp.err THEN 0 ELSE resp.status, json |-> BodyKind(resp)])

Faults == {"transport", "status"}
Outcomes == {"ok"} \cup Faults
FaultResp(o) ==
    IF o = "transport" THEN Resp(TRUE, 0, Undecodable) ELSE Resp(FALSE, 500, Undecodable)

\* 1 for an exchange that fails or races, 0 for one the server answers as it should
Injected(o) == IF o \in {"ok", "ok200", "ok204"} THEN 0 ELSE 1
\* the outcomes the run can still afford
Affordable(S) == {o \in S : Injected(o) <= MaxFaults - faults}

\* POST /<collection>/ : the response, the collection afterwards, the id created (0: none)
RemotePost(k, list, id, body, o, blank) ==
    IF o # "ok" THEN [resp |-> FaultResp(o), remote |-> list, created |-> 0]
    ELSE IF unique /\ NameTaken(list, body["name"].v, 0)
    THEN [resp |-> Resp(FALSE, 400, Undecodable), remote |-> list, created |-> 0]
    ELSE [resp |-> Resp(FALSE, 200, JStr("ok")),
          remote |-> Append(list, NewRecord(k, id, body, blank)),
          created |-> id]

\* GET /<collection>/ : the body is the JSON array of all records; a failing status
\* may still carry an array ("status_array")
ListOutcomes == Outcomes \cup {"status_array"}
RemoteList(list, o) ==
    CASE o = "ok" -> Resp(FALSE, 200, JArr(list))
      [] o = "status_array" -> Resp(FALSE, 500, JArr(list))
      [] OTHER -> FaultResp(o)

\* GET /<collection>/{id}/
RemoteGet(list, id, o) ==
    IF o # "ok" THEN FaultResp(o)
    ELSE IF IndexOfId(list, id) = 0 THEN Resp(FALSE, 404, Undecodable)
    ELSE Resp(FALSE, 200, list[IndexOfId(list, id)])

\* PUT /<collection>/{id}/
RemotePut(list, id, body, o) ==
    IF o # "ok" THEN [resp |-> FaultResp(o), remote |-> list]
    ELSE IF IndexOfId(list, id) = 0
    THEN [resp |-> Resp(FALSE, 404, Undecodable), remote |-> list]
    ELSE IF unique /\ NameTaken(list, body["name"].v, id)
    THEN [resp |-> Resp(FALSE, 400, Undecodable), remote |-> list]
    ELSE [resp |-> Resp(FALSE, 200, JStr("ok")),
          remote |-> ReplaceAt(list, IndexOfId(list, id), Merged(list[IndexOfId(list, id)], body))]

\* DELETE /<collection>/{id}/ : the server answers 200 or 204 on success
DeleteOutcomes == {"ok200", "ok204"} \cup Faults
RemoteDelete(list, id, o) ==
    IF o \in Faults THEN [resp |-> FaultResp(o), remote |-> list]
    ELSE IF IndexOfId(list, id) = 0
    THEN [resp |-> Resp(FALSE, 404, Undecodable), remote |-> list]
    ELSE [resp |-> Resp(FALSE, IF o = "ok200" THEN 200 ELSE 204, NoBody),
          remote |-> Without(list, id)]

\* json.NewDecoder(...).Decode into []map[string]interface{} / map[string]interface{}
DecodesAsList(resp) == resp.body.t = "arr"
DecodesAsMap(resp) == "id" \in DOMAIN resp.body

----------------------------------------------------------------------------
(* The call sequences the three resource adapters share *)

Opt(cond, key, v) == IF cond THEN (key :> v) ELSE <<>>

\* strings.EqualFold over the names of the model
Fold(name) == IF name = "A" THEN "a" ELSE name

\* FindByName comparing names without their case
FindByNameFold(entries, name) ==
    FirstIndex({i \in DOMAIN entries :
                    IsStr(entries[i], "name") /\ Fold(entries[i]["name"].v) = Fold(name)})

\* FindByName taking the first entry that has a name, whatever the name
FindByNameAny(entries, name) ==
    FirstIndex({i \in DOMAIN entries : IsStr(entries[i], "name")})

\* "Find the ... we just created by name": the first entry whose name is the planned one
FindByName(entries, name) ==
    FirstIndex({i \in DOMAIN entries : IsStr(entries[i], "name") /\ entries[i]["name"].v = name})

Failed(d, rs, rem, created) ==
    [ok |-> FALSE, diags |-> d, reqs |-> rs, remote |-> rem, created |-> created, found |-> JNull]

\* What Create's POST and list can meet: a failing POST, or an accepted one followed by
\* the list, before which the new record may have been removed by someone else
CreateOutcomes ==
    {[post |-> f, race |-> FALSE, list |-> "ok"] : f \in Faults}
    \cup [post : {"ok"}, race : BOOLEAN, list : ListOutcomes]

\* CreateRun without the test of the POST status
CreateRunPostUnchecked(k, name, body, o, blank) ==
    LET p == RemotePost(k, remote, nextId, body, o.post, blank)
        r1 == Req("POST", 0, body, p.resp)
    IN  IF p.resp.err
        THEN Failed(Diag("Unable to create, got error", 0), <<r1>>, p.remote, p.created)
        ELSE LET listed == IF o.race THEN Without(p.remote, p.created) ELSE p.remote
                 l == RemoteList(listed, o.list)
                 r2 == Req("GET", 0, NoBody, l)
             IN  IF l.err
                 THEN Failed(Diag("Unable to list, got error", 0), <<r1, r2>>, listed, p.created)
                 ELSE IF ~DecodesAsList(l)
                 THEN Failed(Diag("Unable to parse list, got error", 0), <<r1, r2>>, listed, p.created)
                 ELSE IF FindByName(l.body.v, name) = 0
                 THEN Failed(Diag("Unable to find created", 0), <<r1, r2>>, listed, p.created)
                 ELSE [ok |-> TRUE, diags |-> NoDiags, reqs |-> <<r1, r2>>, remote |-> listed,
                       created |-> p.created, found |-> l.body.v[FindByName(l.body.v, name)]]

CreateCost(o) == Injected(o.post) + (IF o.race THEN 1 ELSE 0) + Injected(o.list)
AffordableCreates == {o \in CreateOutcomes : CreateCost(o) <= MaxFaults - faults}

\* Create: POST the body, then list the collection and find the record by name
CreateRun(k, name, body, o, blank) ==
    LET p == RemotePost(k, remote, nextId, body, o.post, blank)
        r1 == Req("POST", 0, body, p.resp)
    IN  IF p.resp.err
        THEN Failed(Diag("Unable to create, got error", 0), <<r1>>, p.remote, p.created)
        ELSE IF p.resp.status # 200
        THEN Failed(Diag("Unable to create, status code", p.resp.status), <<r1>>, p.remote, p.created)
        ELSE LET listed == IF o.race THEN Without(p.remote, p.created) ELSE p.remote
                 l == RemoteList(listed, o.list)
                 r2 == Req("GET", 0, NoBody, l)
             IN  IF l.err
                 THEN Failed(Diag("Unable to list, got error", 0), <<r1, r2>>, listed, p.created)
                 ELSE IF ~DecodesAsList(l)
                 THEN Failed(Diag("Unable to parse list, got error", 0), <<r1, r2>>, listed, p.created)
                 ELSE IF FindByName(l.body.v, name) = 0
                 THEN Failed(Diag("Unable to find created", 0), <<r1, r2>>, listed, p.created)
                 ELSE [ok |-> TRUE, diags |-> NoDiags, reqs |-> <<r1, r2>>, remote |-> listed,
                       created |-> p.created, found |-> l.body.v[FindByName(l.body.v, name)]]

\* ReadRun with a 404 handled like every other failing status
ReadRunNotFoundIsError(id, o) ==
    LET g == RemoteGet(remote, id, o)
        r1 == Req("GET", id, NoBody, g)
        none == [ok |-> FALSE, gone |-> FALSE, diags |-> NoDiags, reqs |-> <<r1>>, result |-> JNull]
    IN  IF g.err THEN [none EXCEPT !.diags = Diag("Unable to read, got error", 0)]
        ELSE IF g.status # 200 THEN [none EXCEPT !.diags = Diag("Unable to read, status code", g.status)]
        ELSE IF ~DecodesAsMap(g) THEN [none EXCEPT !.diags = Diag("Unable to parse response, got error", 0)]
        ELSE [none EXCEPT !.ok = TRUE, !.result = g.body]

\* ReadRun sending its request as a POST
ReadRunAsPost(id, o) ==
    LET g == RemoteGet(remote, id, o)
        r1 == Req("POST", id, NoBody, g)
        none == [ok |-> FALSE, gone |-> FALSE, diags |-> NoDiags, reqs |-> <<r1>>, result |-> JNull]
    IN  IF g.err THEN [none EXCEPT !.diags = Diag("Unable to read, got error", 0)]
        ELSE IF g.status = 404 THEN [none EXCEPT !.gone = TRUE]
        ELSE IF g.status # 200 THEN [none EXCEPT !.diags = Diag("Unable to read, status code", g.status)]
        ELSE IF ~DecodesAsMap(g) THEN [none EXCEPT !.diags = Diag("Unable to parse response, got error", 0)]
        ELSE [none EXCEPT !.ok = TRUE, !.result = g.body]

\* Read of a script or a snippet: GET by id; 404 drops the resource from state
ReadRun(id, o) ==
    LET g == RemoteGet(remote, id, o)
        r1 == Req("GET", id, NoBody, g)
        none == [ok |-> FALSE, gone |-> FALSE, diags |-> NoDiags, reqs |-> <<r1>>, result |-> JNull]
    IN  IF g.err THEN [none EXCEPT !.diags = Diag("Unable to read, got error", 0)]
        ELSE IF g.status = 404 THEN [none EXCEPT !.gone = TRUE]
        ELSE IF g.status # 200 THEN [none EXCEPT !.diags = Diag("Unable to read, status code", g.status)]
        ELSE IF ~DecodesAsMap(g) THEN [none EXCEPT !.diags = Diag("Unable to parse response, got error", 0)]
        ELSE [none EXCEPT !.ok = TRUE, !.result = g.body]

\* UpdateId taking the id from the plan
UpdateIdFromPlan(data, prior) == ValueInt64(data.id)

\* "Use the ID from the current state": the id in the PUT and GET paths
UpdateId(data, prior) == ValueInt64(prior.id)

UpdateOutcomes ==
    {[put |-> f, get |-> "ok"] : f \in Faults} \cup [put : {"ok"}, get : Outcomes]

\* UpdateRun without the test of the PUT status
UpdateRunPutUnchecked(id, body, o) ==
    LET p == RemotePut(remote, id, body, o.put)
        r1 == Req("PUT", id, body, p.resp)
        none == [ok |-> FALSE, diags |-> NoDiags, reqs |-> <<r1>>, remote |-> p.remote, result |-> JNull]
    IN  IF p.resp.err THEN [none EXCEPT !.diags = Diag("Unable to update, got error", 0)]
        ELSE LET g == RemoteGet(p.remote, id, o.get)
                 r2 == Req("GET", id, NoBody, g)
                 more == [none EXCEPT !.reqs = <<r1, r2>>]
             IN  IF g.err THEN [more EXCEPT !.diags = Diag("Unable to read updated, got error", 0)]
                 ELSE IF g.status # 200
                 THEN [more EXCEPT !.diags = Diag("Unable to read updated, status code", g.status)]
                 ELSE IF ~DecodesAsMap(g)
                 THEN [more EXCEPT !.diags = Diag("Unable to parse response, got error", 0)]
                 ELSE [more EXCEPT !.ok = TRUE, !.result = g.body]

UpdateCost(o) == Injected(o.put) + Injected(o.get)
AffordableUpdates == {o \in UpdateOutcomes : UpdateCost(o) <= MaxFaults - faults}

\* Update of a script or a snippet: PUT the body, then GET the record again
UpdateRun(id, body, o) ==
    LET p == RemotePut(remote, id, body, o.put)
        r1 == Req("PUT", id, body, p.resp)
        none == [ok |-> FALSE, diags |-> NoDiags, reqs |-> <<r1>>, remote |-> p.remote, result |-> JNull]
    IN  IF p.resp.err THEN [none EXCEPT !.diags = Diag("Unable to update, got error", 0)]
        ELSE IF p.resp.status # 200
        THEN [none EXCEPT !.diags = Diag("Unable to update, status code", p.resp.status)]
        ELSE LET g == RemoteGet(p.remote, id, o.get)
                 r2 == Req("GET", id, NoBody, g)
                 more == [none EXCEPT !.reqs = <<r1, r2>>]
             IN  IF g.err THEN [more EXCEPT !.diags = Diag("Unable to read updated, got error", 0)]
                 ELSE IF g.status # 200
                 THEN [more EXCEPT !.diags = Diag("Unable to read updated, status code", g.status)]
                 ELSE IF ~DecodesAsMap(g)
                 THEN [more EXCEPT !.diags = Diag("Unable to parse response, got error", 0)]
                 ELSE [more EXCEPT !.ok = TRUE, !.result = g.body]

\* DeleteRun taking a 404 for a success
DeleteRunNotFoundIsOk(id, o) ==
    LET d == RemoteDelete(remote, id, o)
        r1 == Req("DELETE", id, NoBody, d.resp)
    IN  [ok |-> ~d.resp.err /\ d.resp.status \in {200, 204, 404},
         diags |-> IF d.resp.err THEN Diag("Unable to delete, got error", 0)
                   ELSE IF d.resp.status \notin {200, 204, 404}
                   THEN Diag("Unable to delete, status code", d.resp.status)
                   ELSE NoDiags,
         reqs |-> <<r1>>, remote |-> d.remote]

\* Delete: one DELETE by id; 200 and 204 are the successes
DeleteRun(id, o) ==
    LET d == RemoteDelete(remote, id, o)
        r1 == Req("DELETE", id, NoBody, d.resp)
    IN  [ok |-> ~d.resp.err /\ d.resp.status \in {200, 204},
         diags |-> IF d.resp.err THEN Diag("Unable to delete, got error", 0)
                   ELSE IF d.resp.status # 200 /\ d.resp.status # 204
                   THEN Diag("Unable to delete, status code", d.resp.status)
                   ELSE NoDiags,
         reqs |-> <<r1>>, remote |-> d.remote]

\* the external identifier handed to ImportState, as its characters
Digits == <<"0", "1", "2", "3", "4", "5", "6", "7", "8", "9">>
IsDigit(c) == \E d \in DOMAIN Digits : Digits[d] = c
DigitValue(c) == (CHOOSE d \in DOMAIN Digits : Digits[d] = c) - 1

RECURSIVE Magnitude(_)
Magnitude(s) ==
    IF s = <<>> THEN 0
    ELSE 10 * Magnitude(SubSeq(s, 1, Len(s) - 1)) + DigitValue(s[Len(s)])

\* strconv.ParseInt(s, 10, 64): an optional sign and at least one decimal digit (the
\* identifiers here stay far below the 64-bit range)
ParseInt(s) ==
    LET signed == s # <<>> /\ s[1] \in {"+", "-"}
        digits == IF signed THEN Tail(s) ELSE s
    IN  IF digits = <<>> \/ \E i \in DOMAIN digits : ~IsDigit(digits[i])
        THEN [err |-> TRUE, v |-> 0]
        ELSE [err |-> FALSE,
              v |-> IF signed /\ s[1] = "-" THEN 0 - Magnitude(digits) ELSE Magnitude(digits)]

RECURSIVE Decimal(_)
Decimal(n) ==
    IF n < 10 THEN <<Digits[n + 1]>>
    ELSE Decimal(n \div 10) \o <<Digits[(n % 10) + 1]>>

ImportIds ==
    {Decimal(i) : i \in 1..MaxId}
    \cup {<<"x">>, <<>>, <<"+", "1">>, <<"-", "1">>, <<"1", "x">>, <<"0", "1">>}

\* Imported filling the other attributes too
ImportedWithBase(base, id) == [base EXCEPT !.id = Val(id)]

\* the state ImportState leaves: the id alone, every other attribute null
Imported(base, id) == [f \in DOMAIN base |-> IF f = "id" THEN Val(id) ELSE Null]

\* ImportState: parse the identifier and set the id attribute; no request is made
ImportRun(base, ext) ==
    LET p == ParseInt(ext)
    IN  IF p.err THEN [ok |-> FALSE, diags |-> Diag("Invalid ID", 0), state |-> Absent]
        ELSE [ok |-> TRUE, diags |-> NoDiags, state |-> Imported(base, p.v)]


----------------------------------------------------------------------------
(* ScriptResource *)

ScriptOptionalBody(data) ==
    Opt(~IsNull(data.description), "description", JStr(ValueString(data.description)))
    @@ Opt(~IsNull(data.category), "category", JStr(ValueString(data.category)))
    @@ Opt(~IsNull(data.favorite), "favorite", JBool(ValueBool(data.favorite)))
    @@ Opt(~IsNull(data.hidden), "hidden", JBool(ValueBool(data.hidden)))
    @@ Opt(~IsNull(data.run_as_user), "run_as_user", JBool(ValueBool(data.run_as_user)))
    @@ Opt(~IsNull(data.syntax), "syntax", JStr(ValueString(data.syntax)))
    @@ Opt(~IsNull(data.args), "args", JArr(ElementsAs(data.args)))
    @@ Opt(~IsNull(data.env_vars), "env_vars", JArr(ElementsAs(data.env_vars)))
    @@ Opt(~IsNull(data.supported_platforms), "supported_platforms",
           JArr(ElementsAs(data.supported_platforms)))

\* ScriptCreateBody sending the shell as the script body
ScriptCreateBodyShellAsBody(data) ==
    [name |-> JStr(ValueString(data.name)),
     shell |-> JStr(ValueString(data.shell)),
     script_body |-> JStr(ValueString(data.shell)),
     script_type |-> JStr("userdefined"),
     default_timeout |-> IF ~IsNull(data.default_timeout)
                         THEN JNum(ValueInt64(data.default_timeout))
                         ELSE JNum(DefaultTimeout)]
    @@ ScriptOptionalBody(data)

\* the POST body of ScriptResource.Create
ScriptCreateBody(data) ==
    [name |-> JStr(ValueString(data.name)),
     shell |-> JStr(ValueString(data.shell)),
     script_body |-> JStr(ValueString(data.script_body)),
     script_type |-> JStr("userdefined"),
     default_timeout |-> IF ~IsNull(data.default_timeout)
                         THEN JNum(ValueInt64(data.default_timeout))
                         ELSE JNum(DefaultTimeout)]
    @@ ScriptOptionalBody(data)

\* the PUT body of ScriptResource.Update
ScriptUpdateBody(data) ==
    [name |-> JStr(ValueString(data.name)),
     shell |-> JStr(ValueString(data.shell)),
     script_body |-> JStr(ValueString(data.script_body))]
    @@ Opt(~IsNull(data.default_timeout), "default_timeout", JNum(ValueInt64(data.default_timeout)))
    @@ ScriptOptionalBody(data)

\* a list field after Create: the plan's null is kept, otherwise the response's array
CreatedList(planned, rec, key) ==
    IF IsNull(planned) THEN planned
    ELSE IF IsArr(rec, key) THEN Val(rec[key].v)
    ELSE Val(<<>>)

\* the model ScriptResource.Create stores, from the plan and the record found in the list
ScriptCreateState(data, rec) ==
    [data EXCEPT
        !.id = IF IsNum(rec, "id") THEN Val(rec["id"].v) ELSE @,
        !.script_type = IF IsStr(rec, "script_type") THEN Val(rec["script_type"].v)
                        ELSE Val("userdefined"),
        !.default_timeout = IF IsNum(rec, "default_timeout") THEN Val(rec["default_timeout"].v)
                            ELSE IF IsNull(@) \/ IsUnknown(@) THEN Val(DefaultTimeout) ELSE @,
        !.favorite = IF IsBool(rec, "favorite") THEN Val(rec["favorite"].v) ELSE Val(FALSE),
        !.hidden = IF IsBool(rec, "hidden") THEN Val(rec["hidden"].v) ELSE Val(FALSE),
        !.run_as_user = IF IsBool(rec, "run_as_user") THEN Val(rec["run_as_user"].v) ELSE Val(FALSE),
        !.args = CreatedList(data.args, rec, "args"),
        !.env_vars = CreatedList(data.env_vars, rec, "env_vars"),
        !.supported_platforms = CreatedList(data.supported_platforms, rec, "supported_platforms")]

\* a string field after Read: overwritten when the response carries a string
ReadString(old, rec, key) == IF IsStr(rec, key) THEN Val(rec[key].v) ELSE old
\* category and syntax: overwritten only by a non-empty string
ReadNonEmptyString(old, rec, key) ==
    IF IsStr(rec, key) /\ rec[key].v # "" THEN Val(rec[key].v) ELSE old
ReadNumber(old, rec, key) == IF IsNum(rec, key) THEN Val(rec[key].v) ELSE old
ReadBool(old, rec, key) == IF IsBool(rec, key) THEN Val(rec[key].v) ELSE old
\* ReadList without the len(...) > 0 test
ReadListAnyArray(old, rec, key) ==
    IF IsArr(rec, key) THEN Val(rec[key].v) ELSE old

\* a list field after Read: overwritten only by a non-empty array
ReadList(old, rec, key) ==
    IF IsArr(rec, key) /\ Len(rec[key].v) > 0 THEN Val(rec[key].v) ELSE old

\* the model ScriptResource.Read stores, from the prior state and the GET response
ScriptReadState(data, rec) ==
    [data EXCEPT
        !.name = ReadString(@, rec, "name"),
        !.description = ReadString(@, rec, "description"),
        !.shell = ReadString(@, rec, "shell"),
        !.script_type = ReadString(@, rec, "script_type"),
        !.category = ReadNonEmptyString(@, rec, "category"),
        !.script_body = ReadString(@, rec, "script_body"),
        !.default_timeout = ReadNumber(@, rec, "default_timeout"),
        !.favorite = ReadBool(@, rec, "favorite"),
        !.hidden = ReadBool(@, rec, "hidden"),
        !.run_as_user = ReadBool(@, rec, "run_as_user"),
        !.syntax = ReadNonEmptyString(@, rec, "syntax"),
        !.args = ReadList(@, rec, "args"),
        !.env_vars = ReadList(@, rec, "env_vars"),
        !.supported_platforms = ReadList(@, rec, "supported_platforms")]

\* a computed field after Update: the response's value, else a default for null/unknown
UpdatedBool(old, rec, key) ==
    IF IsBool(rec, key) THEN Val(rec[key].v)
    ELSE IF IsNull(old) \/ IsUnknown(old) THEN Val(FALSE) ELSE old

\* the model ScriptResource.Update stores, from the plan, the state's id and the GET response
ScriptUpdateState(data, id, rec) ==
    [data EXCEPT
        !.id = id,
        !.script_type = IF IsStr(rec, "script_type") THEN Val(rec["script_type"].v)
                        ELSE Val("userdefined"),
        !.default_timeout = IF IsNum(rec, "default_timeout") THEN Val(rec["default_timeout"].v)
                            ELSE IF IsNull(@) \/ IsUnknown(@) THEN Val(DefaultTimeout) ELSE @,
        !.favorite = UpdatedBool(@, rec, "favorite"),
        !.hidden = UpdatedBool(@, rec, "hidden"),
        !.run_as_user = UpdatedBool(@, rec, "run_as_user")]

\* Plans (and configurations) of a script, as they reach the adapter
ScriptVariants ==
    {[shell |-> Val("powershell"), script_body |-> Val("x"),
      description |-> Null, category |-> Null, syntax |-> Null],
     [shell |-> Val("cmd"), script_body |-> Val("y"),
      description |-> Val("d"), category |-> Val("c"), syntax |-> Val("s")]}

\* optional+computed attributes: not configured (null, or unknown in a plan) or configured
ScriptComputed ==
    {[script_type |-> Null, default_timeout |-> Null, favorite |-> Null,
      hidden |-> Null, run_as_user |-> Null],
     [script_type |-> Unknown, default_timeout |-> Unknown, favorite |-> Unknown,
      hidden |-> Unknown, run_as_user |-> Unknown],
     [script_type |-> Unknown, default_timeout |-> Val(30), favorite |-> Val(TRUE),
      hidden |-> Val(FALSE), run_as_user |-> Val(TRUE)]}

ArgsP == Val(<<"-v">>)
EnvP == Val(<<"K=V">>)
PlatP == Val(<<"windows", "linux">>)
Empty == Val(<<>>)
ScriptLists ==
    {[args |-> Null, env_vars |-> Null, supported_platforms |-> Null],
     [args |-> Empty, env_vars |-> Empty, supported_platforms |-> Empty],
     [args |-> ArgsP, env_vars |-> EnvP, supported_platforms |-> PlatP],
     [args |-> Null, env_vars |-> Empty, supported_platforms |-> PlatP],
     [args |-> ArgsP, env_vars |-> Null, supported_platforms |-> Empty]}

ScriptBase ==
    [id |-> Unknown, name |-> Val("a"), shell |-> Val("powershell"), script_body |-> Val("x"),
     description |-> Null, category |-> Null, syntax |-> Null,
     script_type |-> Unknown, default_timeout |-> Unknown, favorite |-> Unknown,
     hidden |-> Unknown, run_as_user |-> Unknown,
     args |-> Null, env_vars |-> Null, supported_platforms |-> Null]

\* A configuration is edited along one group of attributes: the name and the required and
\* optional strings, or the optional+computed attributes, or the list attributes
ScriptPlanFamilies ==
    {{[name |-> Val(n)] @@ v @@ ScriptBase : n \in Names, v \in ScriptVariants},
     {c @@ ScriptBase : c \in ScriptComputed},
     {l @@ ScriptBase : l \in ScriptLists}}

StateId == ValueInt64(state.id)

ScriptResourceCreate ==
    /\ kind = "script" /\ state = Absent /\ nextId <= MaxId
    /\ \E data \in plans, o \in AffordableCreates :
         \E blank \in BlankDefaults(kind, ScriptCreateBody(data)) :
           LET run == CreateRun(kind, ValueString(data.name), ScriptCreateBody(data), o, blank)
           IN  /\ remote' = run.remote
               /\ nextId' = IF run.created # 0 THEN nextId + 1 ELSE nextId
               /\ state' = IF run.ok THEN ScriptCreateState(data, run.found) ELSE state
               /\ faults' = faults + CreateCost(o)
               /\ diags' = run.diags
               /\ reqs' = run.reqs
               /\ op' = [name |-> "Create", id |-> 0, created |-> run.created]
               /\ lastPlan' = IF run.ok THEN Applied("Create", data) ELSE NoPlan
    /\ UNCHANGED <<kind, plans, unique>>
    /\ UNCHANGED dataVars
    /\ UNCHANGED providerVars
    /\ UNCHANGED concVars

ScriptResourceRead ==
    /\ kind = "script" /\ state # Absent
    /\ \E o \in Affordable(Outcomes) :
         LET run == ReadRun(StateId, o)
         IN  /\ state' = IF run.gone THEN Absent
                         ELSE IF run.ok THEN ScriptReadState(state, run.result)
                         ELSE state
             /\ faults' = faults + Injected(o)
             /\ diags' = run.diags
             /\ reqs' = run.reqs
             /\ op' = [name |-> "Read", id |-> StateId, created |-> 0]
             /\ lastPlan' = IF run.gone THEN NoPlan ELSE lastPlan
    /\ UNCHANGED <<kind, plans, unique, remote, nextId>>
    /\ UNCHANGED dataVars
    /\ UNCHANGED providerVars
    /\ UNCHANGED concVars

ScriptResourceUpdate ==
    /\ kind = "script" /\ state # Absent
    /\ \E data \in plans, o \in AffordableUpdates :
         LET run == UpdateRun(UpdateId(data, state), ScriptUpdateBody(data), o)
         IN  /\ remote' = run.remote
             /\ state' = IF run.ok THEN ScriptUpdateState(data, state.id, run.result) ELSE state
             /\ faults' = faults + UpdateCost(o)
             /\ diags' = run.diags
             /\ reqs' = run.reqs
             /\ op' = [name |-> "Update", id |-> StateId, created |-> 0]
             /\ lastPlan' = IF run.ok THEN Applied("Update", data) ELSE NoPlan
    /\ UNCHANGED <<kind, plans, unique, nextId>>
    /\ UNCHANGED dataVars
    /\ UNCHANGED providerVars
    /\ UNCHANGED concVars

ScriptResourceDelete ==
    /\ kind = "script" /\ state # Absent
    /\ \E o \in Affordable(DeleteOutcomes) :
         LET run == DeleteRun(StateId, o)
         IN  /\ remote' = run.remote
             /\ state' = IF run.ok THEN Absent ELSE state
             /\ faults' = faults + Injected(o)
             /\ diags' = run.diags
             /\ reqs' = run.reqs
             /\ op' = [name |-> "Delete", id |-> StateId, created |-> 0]
             /\ lastPlan' = IF run.ok THEN NoPlan ELSE lastPlan
    /\ UNCHANGED <<kind, plans, unique, nextId>>
    /\ UNCHANGED dataVars
    /\ UNCHANGED providerVars
    /\ UNCHANGED concVars

ScriptResourceImportState ==
    /\ kind = "script" /\ state = Absent
    /\ \E ext \in ImportIds :
         LET run == ImportRun(ScriptBase, ext)
         IN  /\ state' = run.state
             /\ diags' = run.diags
             /\ reqs' = <<>>
             /\ op' = [name |-> "Import", id |-> 0, created |-> 0]
             /\ lastPlan' = Applied("Import", ext)
    /\ UNCHANGED <<kind, plans, unique, remote, nextId, faults>>
    /\ UNCHANGED dataVars
    /\ UNCHANGED providerVars
    /\ UNCHANGED concVars

----------------------------------------------------------------------------
(* ScriptSnippetResource *)

\* the POST body of ScriptSnippetResource.Create
SnippetCreateBody(data) ==
    [name |-> JStr(ValueString(data.name)),
     code |-> JStr(ValueString(data.code)),
     shell |-> IF ~IsNull(data.shell) THEN JStr(ValueString(data.shell)) ELSE JStr("powershell")]
    @@ Opt(~IsNull(data.desc), "desc", JStr(ValueString(data.desc)))

\* the PUT body of ScriptSnippetResource.Update
SnippetUpdateBody(data) ==
    [name |-> JStr(ValueString(data.name)),
     code |-> JStr(ValueString(data.code))]
    @@ Opt(~IsNull(data.desc), "desc", JStr(ValueString(data.desc)))
    @@ Opt(~IsNull(data.shell), "shell", JStr(ValueString(data.shell)))

SnippetCreateState(data, rec) ==
    [data EXCEPT
        !.id = IF IsNum(rec, "id") THEN Val(rec["id"].v) ELSE @,
        !.shell = IF IsNull(@) THEN Val("powershell") ELSE @]

SnippetReadState(data, rec) ==
    [data EXCEPT
        !.name = ReadString(@, rec, "name"),
        !.desc = ReadString(@, rec, "desc"),
        !.code = ReadString(@, rec, "code"),
        !.shell = ReadString(@, rec, "shell")]

\* SnippetUpdateState keeping the plan's id
SnippetUpdateStatePlanId(data, id, rec) ==
    [data EXCEPT
        !.shell = IF IsStr(rec, "shell") THEN Val(rec["shell"].v)
                  ELSE IF IsNull(@) \/ IsUnknown(@) THEN Val("powershell") ELSE @]

SnippetUpdateState(data, id, rec) ==
    [data EXCEPT
        !.id = id,
        !.shell = IF IsStr(rec, "shell") THEN Val(rec["shell"].v)
                  ELSE IF IsNull(@) \/ IsUnknown(@) THEN Val("powershell") ELSE @]

SnippetBase ==
    [id |-> Unknown, name |-> Val("a"), code |-> Val("x"), desc |-> Null, shell |-> Unknown]

SnippetPlanFamilies ==
    {{[name |-> Val(n), code |-> c.code, desc |-> c.desc] @@ SnippetBase :
          n \in Names, c \in {[code |-> Val("x"), desc |-> Null], [code |-> Val("y"), desc |-> Val("d")]}},
     {[shell |-> sh] @@ SnippetBase : sh \in {Null, Unknown, Val("cmd")}}}

ScriptSnippetResourceCreate ==
    /\ kind = "snippet" /\ state = Absent /\ nextId <= MaxId
    /\ \E data \in plans, o \in AffordableCreates :
         \E blank \in BlankDefaults(kind, SnippetCreateBody(data)) :
           LET run == CreateRun(kind, ValueString(data.name), SnippetCreateBody(data), o, blank)
           IN  /\ remote' = run.remote
               /\ nextId' = IF run.created # 0 THEN nextId + 1 ELSE nextId
               /\ state' = IF run.ok THEN SnippetCreateState(data, run.found) ELSE state
               /\ faults' = faults + CreateCost(o)
               /\ diags' = run.diags
               /\ reqs' = run.reqs
               /\ op' = [name |-> "Create", id |-> 0, created |-> run.created]
               /\ lastPlan' = IF run.ok THEN Applied("Create", data) ELSE NoPlan
    /\ UNCHANGED <<kind, plans, unique>>
    /\ UNCHANGED dataVars
    /\ UNCHANGED providerVars
    /\ UNCHANGED concVars

ScriptSnippetResourceRead ==
    /\ kind = "snippet" /\ state # Absent
    /\ \E o \in Affordable(Outcomes) :
         LET run == ReadRun(StateId, o)
         IN  /\ state' = IF run.gone THEN Absent
                         ELSE IF run.ok THEN SnippetReadState(state, run.result)
                         ELSE state
             /\ faults' = faults + Injected(o)
             /\ diags' = run.diags
             /\ reqs' = run.reqs
             /\ op' = [name |-> "Read", id |-> StateId, created |-> 0]
             /\ lastPlan' = IF run.gone THEN NoPlan ELSE lastPlan
    /\ UNCHANGED <<kind, plans, unique, remote, nextId>>
    /\ UNCHANGED dataVars
    /\ UNCHANGED providerVars
    /\ UNCHANGED concVars

ScriptSnippetResourceUpdate ==
    /\ kind = "snippet" /\ state # Absent
    /\ \E data \in plans, o \in AffordableUpdates :
         LET run == UpdateRun(UpdateId(data, state), SnippetUpdateBody(data), o)
         IN  /\ remote' = run.remote
             /\ state' = IF run.ok THEN SnippetUpdateState(data, state.id, run.result) ELSE state
             /\ faults' = faults + UpdateCost(o)
             /\ diags' = run.diags
             /\ reqs' = run.reqs
             /\ op' = [name |-> "Update", id |-> StateId, created |-> 0]
             /\ lastPlan' = IF run.ok THEN Applied("Update", data) ELSE NoPlan
    /\ UNCHANGED <<kind, plans, unique, nextId>>
    /\ UNCHANGED dataVars
    /\ UNCHANGED providerVars
    /\ UNCHANGED concVars

ScriptSnippetResourceDelete ==
    /\ kind = "snippet" /\ state # Absent
    /\ \E o \in Affordable(DeleteOutcomes) :
         LET run == DeleteRun(StateId, o)
         IN  /\ remote' = run.remote
             /\ state' = IF run.ok THEN Absent ELSE state
             /\ faults' = faults + Injected(o)
             /\ diags' = run.diags
             /\ reqs' = run.reqs
             /\ op' = [name |-> "Delete", id |-> StateId, created |-> 0]
             /\ lastPlan' = IF run.ok THEN NoPlan ELSE lastPlan
    /\ UNCHANGED <<kind, plans, unique, nextId>>
    /\ UNCHANGED dataVars
    /\ UNCHANGED providerVars
    /\ UNCHANGED concVars

ScriptSnippetResourceImportState ==
    /\ kind = "snippet" /\ state = Absent
    /\ \E ext \in ImportIds :
         LET run == ImportRun(SnippetBase, ext)
         IN  /\ state' = run.state
             /\ diags' = run.diags
             /\ reqs' = <<>>
             /\ op' = [name |-> "Import", id |-> 0, created |-> 0]
             /\ lastPlan' = Applied("Import", ext)
    /\ UNCHANGED <<kind, plans, unique, remote, nextId, faults>>
    /\ UNCHANGED dataVars
    /\ UNCHANGED providerVars
    /\ UNCHANGED concVars

----------------------------------------------------------------------------
(* KeyStoreResource *)

\* the body of KeyStoreResource.Create and of KeyStoreResource.Update
KeyStoreBody(data) ==
    [name |-> JStr(ValueString(data.name)), value |-> JStr(ValueString(data.value))]

KeyStoreCreateState(data, rec) ==
    [data EXCEPT !.id = IF IsNum(rec, "id") THEN Val(rec["id"].v) ELSE @]

\* "Find our entry by ID": the index of the first entry with the state's id
FindById(entries, id) ==
    FirstIndex({i \in DOMAIN entries : IsNum(entries[i], "id") /\ entries[i]["id"].v = id})

KeyStoreReadState(data, rec) ==
    [data EXCEPT
        !.name = ReadString(@, rec, "name"),
        !.value = ReadString(@, rec, "value")]

\* KeyStoreResource.Read: list the collection and scan it for the state's id
KeyStoreReadRun(id, o) ==
    LET l == RemoteList(remote, o)
        r1 == Req("GET", 0, NoBody, l)
        none == [ok |-> FALSE, gone |-> FALSE, diags |-> NoDiags, reqs |-> <<r1>>, result |-> JNull]
    IN  IF l.err THEN [none EXCEPT !.diags = Diag("Unable to read, got error", 0)]
        ELSE IF l.status # 200 THEN [none EXCEPT !.diags = Diag("Unable to read, status code", l.status)]
        ELSE IF ~DecodesAsList(l) THEN [none EXCEPT !.diags = Diag("Unable to parse response, got error", 0)]
        ELSE IF FindById(l.body.v, id) = 0 THEN [none EXCEPT !.gone = TRUE]
        ELSE [none EXCEPT !.ok = TRUE, !.result = l.body.v[FindById(l.body.v, id)]]

\* KeyStoreResource.Update: the PUT alone
KeyStoreUpdateRun(id, body, o) ==
    LET p == RemotePut(remote, id, body, o)
        r1 == Req("PUT", id, body, p.resp)
    IN  [ok |-> ~p.resp.err /\ p.resp.status = 200,
         diags |-> IF p.resp.err THEN Diag("Unable to update, got error", 0)
                   ELSE IF p.resp.status # 200
                   THEN Diag("Unable to update, status code, response", p.resp.status)
                   ELSE NoDiags,
         reqs |-> <<r1>>, remote |-> p.remote]

KeyStorePlanFamilies ==
    {{[id |-> Unknown, name |-> Val(n), value |-> Val(v)] : n \in Names, v \in {"v", "w"}}}

KeyStoreResourceCreate ==
    /\ kind = "keystore" /\ state = Absent /\ nextId <= MaxId
    /\ \E data \in plans, o \in AffordableCreates :
         LET run == CreateRun(kind, ValueString(data.name), KeyStoreBody(data), o, JNull)
         IN  /\ remote' = run.remote
             /\ nextId' = IF run.created # 0 THEN nextId + 1 ELSE nextId
             /\ state' = IF run.ok THEN KeyStoreCreateState(data, run.found) ELSE state
             /\ faults' = faults + CreateCost(o)
             /\ diags' = run.diags
             /\ reqs' = run.reqs
             /\ op' = [name |-> "Create", id |-> 0, created |-> run.created]
             /\ lastPlan' = IF run.ok THEN Applied("Create", data) ELSE NoPlan
    /\ UNCHANGED <<kind, plans, unique>>
    /\ UNCHANGED dataVars
    /\ UNCHANGED providerVars
    /\ UNCHANGED concVars

KeyStoreResourceRead ==
    /\ kind = "keystore" /\ state # Absent
    /\ \E o \in Affordable(ListOutcomes) :
         LET run == KeyStoreReadRun(StateId, o)
         IN  /\ state' = IF run.gone THEN Absent
                         ELSE IF run.ok THEN KeyStoreReadState(state, run.result)
                         ELSE state
             /\ faults' = faults + Injected(o)
             /\ diags' = run.diags
             /\ reqs' = run.reqs
             /\ op' = [name |-> "Read", id |-> StateId, created |-> 0]
             /\ lastPlan' = IF run.gone THEN NoPlan ELSE lastPlan
    /\ UNCHANGED <<kind, plans, unique, remote, nextId>>
    /\ UNCHANGED dataVars
    /\ UNCHANGED providerVars
    /\ UNCHANGED concVars

KeyStoreResourceUpdate ==
    /\ kind = "keystore" /\ state # Absent
    /\ \E data \in plans, o \in Affordable(Outcomes) :
         LET run == KeyStoreUpdateRun(UpdateId(data, state), KeyStoreBody(data), o)
         IN  /\ remote' = run.remote
             /\ state' = IF run.ok THEN [data EXCEPT !.id = state.id] ELSE state
             /\ faults' = faults + Injected(o)
             /\ diags' = run.diags
             /\ reqs' = run.reqs
             /\ op' = [name |-> "Update", id |-> StateId, created |-> 0]
             /\ lastPlan' = IF run.ok THEN Applied("Update", data) ELSE NoPlan
    /\ UNCHANGED <<kind, plans, unique, nextId>>
    /\ UNCHANGED dataVars
    /\ UNCHANGED providerVars
    /\ UNCHANGED concVars

KeyStoreResourceDelete ==
    /\ kind = "keystore" /\ state # Absent
    /\ \E o \in Affordable(DeleteOutcomes) :
         LET run == DeleteRun(StateId, o)
         IN  /\ remote' = run.remote
             /\ state' = IF run.ok THEN Absent ELSE state
             /\ faults' = faults + Injected(o)
             /\ diags' = run.diags
             /\ reqs' = run.reqs
             /\ op' = [name |-> "Delete", id |-> StateId, created |-> 0]
             /\ lastPlan' = IF run.ok THEN NoPlan ELSE lastPlan
    /\ UNCHANGED <<kind, plans, unique, nextId>>
    /\ UNCHANGED dataVars
    /\ UNCHANGED providerVars
    /\ UNCHANGED concVars

KeyStoreBase == [id |-> Unknown, name |-> Val("a"), value |-> Val("v")]

KeyStoreResourceImportState ==
    /\ kind = "keystore" /\ state = Absent
    /\ \E ext \in ImportIds :
         LET run == ImportRun(KeyStoreBase, ext)
         IN  /\ state' = run.state
             /\ diags' = run.diags
             /\ reqs' = <<>>
             /\ op' = [name |-> "Import", id |-> 0, created |-> 0]
             /\ lastPlan' = Applied("Import", ext)
    /\ UNCHANGED <<kind, plans, unique, remote, nextId, faults>>
    /\ UNCHANGED dataVars
    /\ UNCHANGED providerVars
    /\ UNCHANGED concVars

PlanFamilies(k) ==
    CASE k = "script" -> ScriptPlanFamilies
      [] k = "snippet" -> SnippetPlanFamilies
      [] k = "keystore" -> KeyStorePlanFamilies

----------------------------------------------------------------------------
(* Other clients of the same remote *)

ForeignBody(k, n) ==
    CASE k = "script" -> [name |-> JStr(n), shell |-> JStr("python"), script_body |-> JStr("f")]
      [] k = "snippet" -> [name |-> JStr(n), code |-> JStr("f"), shell |-> JStr("python")]
      [] k = "keystore" -> [name |-> JStr(n), value |-> JStr("f")]

ForeignName == "b"

Idle == [name |-> "Oob", id |-> 0, created |-> 0]

\* another client creates a record
OobCreate ==
    /\ nextId <= MaxId
    /\ ~(unique /\ NameTaken(remote, ForeignName, 0))
    /\ remote' = Append(remote, NewRecord(kind, nextId, ForeignBody(kind, ForeignName), JNull))
    /\ nextId' = nextId + 1
    /\ diags' = NoDiags /\ reqs' = <<>> /\ op' = Idle /\ lastPlan' = NoPlan
    /\ UNCHANGED <<kind, plans, unique, faults, state>>
    /\ UNCHANGED dataVars
    /\ UNCHANGED providerVars
    /\ UNCHANGED concVars

\* another client deletes a record
OobDelete ==
    /\ \E i \in DOMAIN remote : remote' = Without(remote, remote[i]["id"].v)
    /\ diags' = NoDiags /\ reqs' = <<>> /\ op' = Idle /\ lastPlan' = NoPlan
    /\ UNCHANGED <<kind, plans, unique, nextId, faults, state>>
    /\ UNCHANGED dataVars
    /\ UNCHANGED providerVars
    /\ UNCHANGED concVars

\* what an optional field of a script holds once it has been emptied
Cleared(f) == IF f \in {"args", "env_vars", "supported_platforms"} THEN JArr(<<>>) ELSE JStr("")
Clearable == {"args", "env_vars", "supported_platforms", "category", "syntax"}

\* another client empties an optional field of a script
OobClear ==
    /\ kind = "script"
    /\ \E i \in DOMAIN remote : \E f \in Clearable :
          /\ remote[i][f] \notin {Cleared(f), JNull}
          /\ remote' = [remote EXCEPT ![i][f] = Cleared(f)]
    /\ diags' = NoDiags /\ reqs' = <<>> /\ op' = Idle /\ lastPlan' = NoPlan
    /\ UNCHANGED <<kind, plans, unique, nextId, faults, state>>
    /\ UNCHANGED dataVars
    /\ UNCHANGED providerVars
    /\ UNCHANGED concVars

\* the records other clients keep in the collections the data sources read
VariedBodies(k) ==
    CASE k = "script" ->
            {[name |-> JStr("a"), shell |-> JStr("powershell"), script_body |-> JStr("f"),
              category |-> JStr("c"), favorite |-> JBool(TRUE),
              supported_platforms |-> JArr(<<"linux", "windows">>)],
             [name |-> JStr("A"), shell |-> JStr("python"), script_body |-> JStr("g"),
              script_type |-> JStr("builtin"), hidden |-> JBool(TRUE)]}
      [] k = "snippet" ->
            {[name |-> JStr("a"), code |-> JStr("f"), shell |-> JStr("powershell")],
             [name |-> JStr("A"), code |-> JStr("g"), shell |-> JStr("python"), desc |-> JStr("d")]}
      [] k = "keystore" ->
            {[name |-> JStr("a"), value |-> JStr("f")],
             [name |-> JStr("A"), value |-> JStr("g")]}

\* another client creates one of them
OobCreateVaried ==
    /\ nextId <= MaxId
    /\ \E body \in VariedBodies(kind) :
          /\ ~(unique /\ NameTaken(remote, body["name"].v, 0))
          /\ remote' = Append(remote, NewRecord(kind, nextId, body, JNull))
    /\ nextId' = nextId + 1
    /\ diags' = NoDiags /\ reqs' = <<>> /\ op' = Idle /\ lastPlan' = NoPlan
    /\ UNCHANGED <<kind, plans, unique, faults, state>>
    /\ UNCHANGED dataVars
    /\ UNCHANGED providerVars
    /\ UNCHANGED concVars

-----------------------------------------------------------------------------
(* Data sources: the lookups of one record *)

\* the configuration of a data source carries values that are null or known
QueryIds == {Null} \cup {Val(i) : i \in 1..MaxId}
QueryNames == {Null, Val("a"), Val("A")}
SingularConfigs(base) == {[base EXCEPT !.id = i, !.name = n] : i \in QueryIds, n \in QueryNames}

\* MissingIdentifier without the test
MissingIdentifierNever(cfg) == FALSE

\* "Validate that either ID or name is provided"
MissingIdentifier(cfg) == IsNull(cfg.id) /\ IsNull(cfg.name)

\* LooksUpById giving way to a name
LooksUpByIdUnlessNamed(cfg) == ~IsNull(cfg.id) /\ IsNull(cfg.name)

\* the branch a lookup takes: by id whenever the id is not null
LooksUpById(cfg) == ~IsNull(cfg.id)

NoMatch(d, rs) == [ok |-> FALSE, diags |-> d, reqs |-> rs, found |-> JNull]
Match(rs, rec) == [ok |-> TRUE, diags |-> NoDiags, reqs |-> rs, found |-> rec]

\* "Look up by ID": GET /<collection>/{id}/
GetByIdRun(cfg, o) ==
    LET id == ValueInt64(cfg.id)
        g == RemoteGet(remote, id, o)
        r1 == Req("GET", id, NoBody, g)
    IN  IF g.err THEN NoMatch(Diag("Unable to read, got error", 0), <<r1>>)
        ELSE IF g.status = 404 THEN NoMatch(Diag("Not Found, ID", id), <<r1>>)
        ELSE IF g.status # 200 THEN NoMatch(Diag("Unable to read, status code", g.status), <<r1>>)
        ELSE IF ~DecodesAsMap(g) THEN NoMatch(Diag("Unable to parse response, got error", 0), <<r1>>)
        ELSE Match(<<r1>>, g.body)

\* "Look up by name - need to list all ... and find the matching one"
ListByNameRun(cfg, o) ==
    LET name == ValueString(cfg.name)
        l == RemoteList(remote, o)
        r1 == Req("GET", 0, NoBody, l)
    IN  IF l.err THEN NoMatch(Diag("Unable to list, got error", 0), <<r1>>)
        ELSE IF l.status # 200 THEN NoMatch(Diag("Unable to list, status code", l.status), <<r1>>)
        ELSE IF ~DecodesAsList(l) THEN NoMatch(Diag("Unable to parse list, got error", 0), <<r1>>)
        ELSE IF FindByName(l.body.v, name) = 0 THEN NoMatch(Diag("Not Found, name", name), <<r1>>)
        ELSE Match(<<r1>>, l.body.v[FindByName(l.body.v, name)])

\* ScriptDataSource.Read and ScriptSnippetDataSource.Read up to the record they found
LookupRun(cfg, o) ==
    IF MissingIdentifier(cfg) THEN NoMatch(Diag("Missing Identifier", 0), <<>>)
    ELSE IF LooksUpById(cfg) THEN GetByIdRun(cfg, o)
    ELSE ListByNameRun(cfg, o)

\* KeyStoreDataSource.Read up to the entry it found: always the list, scanned by id or by name
KeyStoreLookupRun(cfg, o) ==
    IF MissingIdentifier(cfg) THEN NoMatch(Diag("Missing Identifier", 0), <<>>)
    ELSE
    LET l == RemoteList(remote, o)
        r1 == Req("GET", 0, NoBody, l)
        id == ValueInt64(cfg.id)
        name == ValueString(cfg.name)
    IN  IF l.err THEN NoMatch(Diag("Unable to read, got error", 0), <<r1>>)
        ELSE IF l.status # 200 THEN NoMatch(Diag("Unable to read, status code", l.status), <<r1>>)
        ELSE IF ~DecodesAsList(l) THEN NoMatch(Diag("Unable to parse response, got error", 0), <<r1>>)
        ELSE IF LooksUpById(cfg)
        THEN IF FindById(l.body.v, id) = 0 THEN NoMatch(Diag("Not Found, ID", id), <<r1>>)
             ELSE Match(<<r1>>, l.body.v[FindById(l.body.v, id)])
        ELSE IF FindByName(l.body.v, name) = 0 THEN NoMatch(Diag("Not Found, name", name), <<r1>>)
             ELSE Match(<<r1>>, l.body.v[FindByName(l.body.v, name)])

\* what the one exchange of a lookup can meet
LookupOutcomes(k, cfg) ==
    IF MissingIdentifier(cfg) THEN {"ok"}
    ELSE IF LooksUpById(cfg) /\ k # "keystore" THEN Outcomes
    ELSE ListOutcomes

\* the model ScriptDataSource.Read stores, from the configuration and the record found
ScriptDataState(cfg, rec) ==
    [cfg EXCEPT
        !.id = ReadNumber(@, rec, "id"),
        !.name = ReadString(@, rec, "name"),
        !.description = ReadString(Null, rec, "description"),
        !.shell = ReadString(@, rec, "shell"),
        !.script_type = ReadString(@, rec, "script_type"),
        !.category = ReadNonEmptyString(Null, rec, "category"),
        !.filename = ReadNonEmptyString(Null, rec, "filename"),
        !.script_body = ReadString(@, rec, "script_body"),
        !.script_hash = ReadNonEmptyString(Null, rec, "script_hash"),
        !.default_timeout = ReadNumber(@, rec, "default_timeout"),
        !.favorite = ReadBool(@, rec, "favorite"),
        !.hidden = ReadBool(@, rec, "hidden"),
        !.run_as_user = ReadBool(@, rec, "run_as_user"),
        !.syntax = ReadNonEmptyString(Null, rec, "syntax"),
        !.args = ReadList(Null, rec, "args"),
        !.env_vars = ReadList(Null, rec, "env_vars"),
        !.supported_platforms = ReadList(Null, rec, "supported_platforms")]

\* the model ScriptSnippetDataSource.Read stores
SnippetDataState(cfg, rec) ==
    [cfg EXCEPT
        !.id = ReadNumber(@, rec, "id"),
        !.name = ReadString(@, rec, "name"),
        !.desc = ReadString(Null, rec, "desc"),
        !.code = ReadString(@, rec, "code"),
        !.shell = ReadString(@, rec, "shell")]

\* the model KeyStoreDataSource.Read stores
KeyStoreDataState(cfg, rec) ==
    [cfg EXCEPT
        !.id = ReadNumber(@, rec, "id"),
        !.name = ReadString(@, rec, "name"),
        !.value = ReadString(@, rec, "value")]

\* the attributes of the three data source models, all null before the configuration sets any
ScriptDataBase ==
    [f \in {"id", "name", "description", "shell", "script_type", "category", "filename",
            "script_body", "script_hash", "default_timeout", "favorite", "hidden",
            "run_as_user", "args", "env_vars", "supported_platforms", "syntax"} |-> Null]
SnippetDataBase == [f \in {"id", "name", "desc", "code", "shell"} |-> Null]
KeyStoreDataBase == [f \in {"id", "name", "value"} |-> Null]

Lookup == [name |-> "Lookup", id |-> 0, created |-> 0]

ScriptDataSourceRead ==
    /\ kind = "script"
    /\ \E cfg \in SingularConfigs(ScriptDataBase) : \E o \in Affordable(LookupOutcomes(kind, cfg)) :
          LET run == LookupRun(cfg, o)
          IN  /\ query' = cfg
              /\ result' = IF run.ok THEN ScriptDataState(cfg, run.found) ELSE Absent
              /\ diags' = run.diags
              /\ reqs' = run.reqs
              /\ faults' = faults + Injected(o)
    /\ op' = Lookup
    /\ UNCHANGED <<kind, plans, unique, remote, nextId, state, lastPlan>>
    /\ UNCHANGED providerVars
    /\ UNCHANGED concVars

ScriptSnippetDataSourceRead ==
    /\ kind = "snippet"
    /\ \E cfg \in SingularConfigs(SnippetDataBase) : \E o \in Affordable(LookupOutcomes(kind, cfg)) :
          LET run == LookupRun(cfg, o)
          IN  /\ query' = cfg
              /\ result' = IF run.ok THEN SnippetDataState(cfg, run.found) ELSE Absent
              /\ diags' = run.diags
              /\ reqs' = run.reqs
              /\ faults' = faults + Injected(o)
    /\ op' = Lookup
    /\ UNCHANGED <<kind, plans, unique, remote, nextId, state, lastPlan>>
    /\ UNCHANGED providerVars
    /\ UNCHANGED concVars

KeyStoreDataSourceRead ==
    /\ kind = "keystore"
    /\ \E cfg \in SingularConfigs(KeyStoreDataBase) : \E o \in Affordable(LookupOutcomes(kind, cfg)) :
          LET run == KeyStoreLookupRun(cfg, o)
          IN  /\ query' = cfg
              /\ result' = IF run.ok THEN KeyStoreDataState(cfg, run.found) ELSE Absent
              /\ diags' = run.diags
              /\ reqs' = run.reqs
              /\ faults' = faults + Injected(o)
    /\ op' = Lookup
    /\ UNCHANGED <<kind, plans, unique, remote, nextId, state, lastPlan>>
    /\ UNCHANGED providerVars
    /\ UNCHANGED concVars

-----------------------------------------------------------------------------
(* Data sources: the filtered lists *)

\* an equality filter on a string field: unset, or the field is a string equal to it
StringFilter(v, rec, key) == IsNull(v) \/ (IsStr(rec, key) /\ rec[key].v = ValueString(v))
\* an equality filter on a boolean field
BoolFilter(v, rec, key) == IsNull(v) \/ (IsBool(rec, key) /\ rec[key].v = ValueBool(v))

\* Included looking at the name filter alone
IncludedByNameAlone(k, cfg, rec) == StringFilter(cfg.name, rec, "name")

\* "Apply other filters": whether a record of the list is kept when no id is given
Included(k, cfg, rec) ==
    /\ StringFilter(cfg.name, rec, "name")
    /\ k = "script" =>
          /\ StringFilter(cfg.script_type, rec, "script_type")
          /\ StringFilter(cfg.shell, rec, "shell")
          /\ StringFilter(cfg.category, rec, "category")
          /\ BoolFilter(cfg.hidden, rec, "hidden")

\* "Filter by ID": the first record with the id, and the scan stops there
IdFilter(entries, id) ==
    IF FindById(entries, id) = 0 THEN <<>> ELSE <<entries[FindById(entries, id)]>>

\* Filtered applying the other filters to the record the id selected
FilteredByIdAndOthers(k, cfg, entries) ==
    SelectSeq(IF ~IsNull(cfg.id) THEN IdFilter(entries, ValueInt64(cfg.id)) ELSE entries,
              LAMBDA e : Included(k, cfg, e))

\* "Filter ... based on criteria"
Filtered(k, cfg, entries) ==
    IF ~IsNull(cfg.id) THEN IdFilter(entries, ValueInt64(cfg.id))
    ELSE SelectSeq(entries, LAMBDA e : Included(k, cfg, e))

\* ScriptModel, ScriptSnippetModel, KeyStoreModel before any field is set
ItemBase(k) ==
    CASE k = "script" ->
            [f \in {"id", "name", "description", "shell", "script_type", "category", "filename",
                    "default_timeout", "favorite", "hidden", "run_as_user", "args", "env_vars",
                    "supported_platforms", "syntax"} |-> Null]
      [] k = "snippet" -> [f \in {"id", "name", "desc", "code", "shell"} |-> Null]
      [] k = "keystore" -> [f \in {"id", "name", "value"} |-> Null]

\* "Convert to ... list": one record of the list as the data source shows it
Project(k, rec) ==
    CASE k = "script" ->
            [ItemBase(k) EXCEPT
                !.id = ReadNumber(@, rec, "id"),
                !.name = ReadString(@, rec, "name"),
                !.description = ReadString(Null, rec, "description"),
                !.shell = ReadString(@, rec, "shell"),
                !.script_type = ReadString(@, rec, "script_type"),
                !.category = ReadNonEmptyString(Null, rec, "category"),
                !.filename = ReadNonEmptyString(Null, rec, "filename"),
                !.default_timeout = ReadNumber(@, rec, "default_timeout"),
                !.favorite = ReadBool(@, rec, "favorite"),
                !.hidden = ReadBool(@, rec, "hidden"),
                !.run_as_user = ReadBool(@, rec, "run_as_user"),
                !.syntax = ReadNonEmptyString(Null, rec, "syntax"),
                !.args = ReadList(Null, rec, "args"),
                !.env_vars = ReadList(Null, rec, "env_vars"),
                !.supported_platforms = ReadList(Null, rec, "supported_platforms")]
      [] k = "snippet" ->
            [ItemBase(k) EXCEPT
                !.id = ReadNumber(@, rec, "id"),
                !.name = ReadString(@, rec, "name"),
                !.desc = ReadString(Null, rec, "desc"),
                !.code = ReadString(@, rec, "code"),
                !.shell = ReadString(@, rec, "shell")]
      [] k = "keystore" ->
            [ItemBase(k) EXCEPT
                !.id = ReadNumber(@, rec, "id"),
                !.name = ReadString(@, rec, "name"),
                !.value = ReadString(@, rec, "value")]

\* the attributes the three plural data sources declare; the last one is the list they compute
Declared(k) ==
    CASE k = "script" -> <<"id", "name", "script_type", "shell", "category", "hidden", "scripts">>
      [] k = "snippet" -> <<"id", "name", "snippets">>
      [] k = "keystore" -> <<"id", "name", "keystores">>
Range(seq) == {seq[i] : i \in DOMAIN seq}
ItemsField(k) == Declared(k)[Len(Declared(k))]

\* the arguments a configuration block can be written with: the declared ones and, for
\* the scripts, the two further filters the documentation of the data source lists
Documented(k) ==
    Range(Declared(k)) \cup (IF k = "script" THEN {"favorite", "supported_platform"} ELSE {})

\* a configuration that sets an argument the schema does not declare is refused
\* before Read is called
Undeclared(k, cfg) == \E f \in DOMAIN cfg \ Range(Declared(k)) : ~IsNull(cfg[f])

\* the state a plural Read stores: the configured filters and the projected list
ListState(k, cfg, entries) ==
    [f \in Range(Declared(k)) |->
        IF f = ItemsField(k)
        THEN Val([i \in DOMAIN Filtered(k, cfg, entries) |-> Project(k, Filtered(k, cfg, entries)[i])])
        ELSE cfg[f]]

\* ScriptsDataSource.Read, ScriptSnippetsDataSource.Read and KeyStoresDataSource.Read
ListRun(k, cfg, o) ==
    LET l == RemoteList(remote, o)
        r1 == Req("GET", 0, NoBody, l)
        failed(d) == [ok |-> FALSE, diags |-> d, reqs |-> <<r1>>, state |-> Absent]
    IN  IF Undeclared(k, cfg)
        THEN [ok |-> FALSE, diags |-> Diag("Unsupported argument", 0), reqs |-> <<>>, state |-> Absent]
        ELSE IF l.err THEN failed(Diag("Unable to list, got error", 0))
        ELSE IF l.status # 200 THEN failed(Diag("Unable to list, status code", l.status))
        ELSE IF ~DecodesAsList(l) THEN failed(Diag("Unable to parse list, got error", 0))
        ELSE [ok |-> TRUE, diags |-> NoDiags, reqs |-> <<r1>>, state |-> ListState(k, cfg, l.body.v)]

ListOutcomesOf(k, cfg) == IF Undeclared(k, cfg) THEN {"ok"} ELSE ListOutcomes

\* the filters a configuration can set
Settings(k) ==
    {<<"id", Val(i)>> : i \in 1..MaxId} \cup {<<"name", Val("a")>>}
    \cup (IF k = "script"
          THEN {<<"script_type", Val("builtin")>>, <<"shell", Val("python")>>,
                <<"category", Val("c")>>, <<"hidden", Val(FALSE)>>,
                <<"favorite", Val(TRUE)>>, <<"supported_platform", Val("windows")>>}
          ELSE {<<"name", Val("A")>>})
With(cfg, s) == [cfg EXCEPT ![s[1]] = s[2]]
NoFilter(k) == [f \in Documented(k) |-> Null]
\* the filters a second one is combined with
Companions(k) ==
    {<<"name", Val("a")>>} \cup (IF k = "script" THEN {<<"shell", Val("python")>>} ELSE {})
\* no filter, one filter, or two filters at once
PluralConfigs(k) ==
    {NoFilter(k)}
    \cup {With(NoFilter(k), s) : s \in Settings(k)}
    \cup {With(With(NoFilter(k), s), t) : s \in Settings(k), t \in Companions(k)}

Listing == [name |-> "List", id |-> 0, created |-> 0]

ScriptsDataSourceRead ==
    /\ kind = "script"
    /\ \E cfg \in PluralConfigs(kind) : \E o \in Affordable(ListOutcomesOf(kind, cfg)) :
          LET run == ListRun(kind, cfg, o)
          IN  /\ query' = cfg
              /\ result' = run.state
              /\ diags' = run.diags
              /\ reqs' = run.reqs
              /\ faults' = faults + Injected(o)
    /\ op' = Listing
    /\ UNCHANGED <<kind, plans, unique, remote, nextId, state, lastPlan>>
    /\ UNCHANGED providerVars
    /\ UNCHANGED concVars

ScriptSnippetsDataSourceRead ==
    /\ kind = "snippet"
    /\ \E cfg \in PluralConfigs(kind) : \E o \in Affordable(ListOutcomesOf(kind, cfg)) :
          LET run == ListRun(kind, cfg, o)
          IN  /\ query' = cfg
              /\ result' = run.state
              /\ diags' = run.diags
              /\ reqs' = run.reqs
              /\ faults' = faults + Injected(o)
    /\ op' = Listing
    /\ UNCHANGED <<kind, plans, unique, remote, nextId, state, lastPlan>>
    /\ UNCHANGED providerVars
    /\ UNCHANGED concVars

KeyStoresDataSourceRead ==
    /\ kind = "keystore"
    /\ \E cfg \in PluralConfigs(kind) : \E o \in Affordable(ListOutcomesOf(kind, cfg)) :
          LET run == ListRun(kind, cfg, o)
          IN  /\ query' = cfg
              /\ result' = run.state
              /\ diags' = run.diags
              /\ reqs' = run.reqs
              /\ faults' = faults + Injected(o)
    /\ op' = Listing
    /\ UNCHANGED <<kind, plans, unique, remote, nextId, state, lastPlan>>
    /\ UNCHANGED providerVars
    /\ UNCHANGED concVars

-----------------------------------------------------------------------------
(* Creates of distinct resource addresses, run side by side by one apply *)

Procs == {1, 2}
NoProcs == [none |-> TRUE]
\* the resources of one configuration carry distinct names
ProcName(p) == IF p = 1 THEN "a" ELSE "b"
ProcPlan(k, p) ==
    CASE k = "script" -> [ScriptBase EXCEPT !.name = Val(ProcName(p))]
      [] k = "snippet" -> [SnippetBase EXCEPT !.name = Val(ProcName(p))]
      [] k = "keystore" -> [KeyStoreBase EXCEPT !.name = Val(ProcName(p))]
CreateBody(k, data) ==
    CASE k = "script" -> ScriptCreateBody(data)
      [] k = "snippet" -> SnippetCreateBody(data)
      [] k = "keystore" -> KeyStoreBody(data)
CreateState(k, data, rec) ==
    CASE k = "script" -> ScriptCreateState(data, rec)
      [] k = "snippet" -> SnippetCreateState(data, rec)
      [] k = "keystore" -> KeyStoreCreateState(data, rec)
Starting(k, p) ==
    [pc |-> "start", plan |-> ProcPlan(k, p), created |-> 0, state |-> Absent,
     diags |-> NoDiags, reqs |-> <<>>, seen |-> 0]

\* the first half of Create: the POST and the test of its answer
CreatePostStep(p) ==
    /\ procs[p].pc = "start" /\ nextId <= MaxId
    /\ \E o \in Affordable(Outcomes) :
         \E blank \in BlankDefaults(kind, CreateBody(kind, procs[p].plan)) :
           LET body == CreateBody(kind, procs[p].plan)
               post == RemotePost(kind, remote, nextId, body, o, blank)
               r1 == Req("POST", 0, body, post.resp)
               sent == [procs[p] EXCEPT !.reqs = <<r1>>, !.created = post.created]
           IN  /\ remote' = post.remote
               /\ nextId' = IF post.created # 0 THEN nextId + 1 ELSE nextId
               /\ faults' = faults + Injected(o)
               /\ procs' = [procs EXCEPT ![p] =
                      IF post.resp.err
                      THEN [sent EXCEPT !.pc = "failed",
                                        !.diags = Diag("Unable to create, got error", 0)]
                      ELSE IF post.resp.status # 200
                      THEN [sent EXCEPT !.pc = "failed",
                                        !.diags = Diag("Unable to create, status code", post.resp.status)]
                      ELSE [sent EXCEPT !.pc = "posted"]]
    /\ UNCHANGED <<kind, plans, unique, state, diags, reqs, op, lastPlan>>
    /\ UNCHANGED dataVars
    /\ UNCHANGED providerVars

\* the second half of Create: the list, the search by name, the state
CreateListStep(p) ==
    /\ procs[p].pc = "posted"
    /\ \E o \in Affordable(ListOutcomes) :
           LET name == ValueString(procs[p].plan.name)
               l == RemoteList(remote, o)
               r2 == Req("GET", 0, NoBody, l)
               got == [procs[p] EXCEPT !.reqs = Append(@, r2)]
           IN  /\ faults' = faults + Injected(o)
               /\ procs' = [procs EXCEPT ![p] =
                      IF l.err
                      THEN [got EXCEPT !.pc = "failed", !.diags = Diag("Unable to list, got error", 0)]
                      ELSE IF ~DecodesAsList(l)
                      THEN [got EXCEPT !.pc = "failed",
                                       !.diags = Diag("Unable to parse list, got error", 0)]
                      ELSE IF FindByName(l.body.v, name) = 0
                      THEN [got EXCEPT !.pc = "failed", !.diags = Diag("Unable to find created", 0)]
                      ELSE [got EXCEPT !.pc = "done", !.seen = Len(l.body.v),
                                       !.state = CreateState(kind, procs[p].plan,
                                                             l.body.v[FindByName(l.body.v, name)])]]
    /\ UNCHANGED <<kind, plans, unique, remote, nextId, state, diags, reqs, op, lastPlan>>
    /\ UNCHANGED dataVars
    /\ UNCHANGED providerVars

\* trmmProvider.Configure, called once before any resource or data source is used
TrmmProviderConfigure ==
    /\ op.name = "Init"
    /\ client' = ConfigureRun(settings).client
    /\ diags' = ConfigureRun(settings).diags
    /\ reqs' = <<>>
    /\ op' = [name |-> "Configure", id |-> 0, created |-> 0]
    /\ UNCHANGED <<kind, plans, unique, remote, nextId, faults, state, lastPlan>>
    /\ UNCHANGED <<settings, query, result>>
    /\ UNCHANGED concVars

----------------------------------------------------------------------------

InitCommon ==
    /\ kind \in Kinds
    /\ plans \in PlanFamilies(kind)
    /\ remote = <<>>
    /\ nextId = 1
    /\ faults = 0
    /\ state = Absent
    /\ diags = NoDiags
    /\ reqs = <<>>
    /\ op = [name |-> "Init", id |-> 0, created |-> 0]
    /\ lastPlan = NoPlan
    /\ query = NoPlan
    /\ result = Absent
    /\ settings = Explicit
    /\ client = ConfigureRun(Explicit).client
    /\ procs = NoProcs

\* the remote enforces unique names
Init == InitCommon /\ unique = TRUE

\* the remote may or may not enforce unique names
InitAnyRemote == InitCommon /\ unique \in BOOLEAN

Next ==
    \/ ScriptResourceCreate
    \/ ScriptResourceRead
    \/ ScriptResourceUpdate
    \/ ScriptResourceDelete
    \/ ScriptResourceImportState
    \/ ScriptSnippetResourceCreate
    \/ ScriptSnippetResourceRead
    \/ ScriptSnippetResourceUpdate
    \/ ScriptSnippetResourceDelete
    \/ ScriptSnippetResourceImportState
    \/ KeyStoreResourceCreate
    \/ KeyStoreResourceRead
    \/ KeyStoreResourceUpdate
    \/ KeyStoreResourceDelete
    \/ KeyStoreResourceImportState
    \/ OobCreate
    \/ OobDelete

Spec == Init /\ [][Next]_vars

SpecAnyRemote == InitAnyRemote /\ [][Next]_vars

\* a run of the data sources alone: nothing is managed, other clients own every record
\* and the remote lets two of them carry one name
InitData ==
    /\ kind \in Kinds
    /\ plans = {}
    /\ unique = FALSE
    /\ remote = <<>>
    /\ nextId = 1
    /\ faults = 0
    /\ state = Absent
    /\ diags = NoDiags
    /\ reqs = <<>>
    /\ op = [name |-> "Init", id |-> 0, created |-> 0]
    /\ lastPlan = NoPlan
    /\ query = NoPlan
    /\ result = Absent
    /\ settings = Explicit
    /\ client = ConfigureRun(Explicit).client
    /\ procs = NoProcs

NextData ==
    \/ ScriptDataSourceRead
    \/ ScriptSnippetDataSourceRead
    \/ KeyStoreDataSourceRead
    \/ ScriptsDataSourceRead
    \/ ScriptSnippetsDataSourceRead
    \/ KeyStoresDataSourceRead
    \/ OobCreateVaried
    \/ OobDelete

SpecData == InitData /\ [][NextData]_vars

\* a run of one managed script whose optional fields other clients edit
InitDrift == Init /\ kind = "script"

NextDrift ==
    \/ ScriptResourceCreate
    \/ ScriptResourceRead
    \/ ScriptResourceUpdate
    \/ ScriptResourceDelete
    \/ OobClear

SpecDrift == InitDrift /\ [][NextDrift]_vars

\* a run from the provider's configuration on: one configuration per kind, a server
\* that answers every exchange
InitProvider ==
    /\ kind \in Kinds
    /\ plans = {CASE kind = "script" -> ScriptBase
                   [] kind = "snippet" -> SnippetBase
                   [] kind = "keystore" -> KeyStoreBase}
    /\ unique = TRUE
    /\ remote = <<>>
    /\ nextId = 1
    /\ faults = MaxFaults
    /\ state = Absent
    /\ diags = NoDiags
    /\ reqs = <<>>
    /\ op = [name |-> "Init", id |-> 0, created |-> 0]
    /\ lastPlan = NoPlan
    /\ query = NoPlan
    /\ result = Absent
    /\ settings \in ProviderSettings
    /\ client = NoClient
    /\ procs = NoProcs

\* resources and data sources operate once Configure has handed them a client
Configured == client # NoClient

NextProvider ==
    \/ TrmmProviderConfigure
    \/ Configured /\ ScriptResourceCreate
    \/ Configured /\ ScriptResourceRead
    \/ Configured /\ ScriptResourceUpdate
    \/ Configured /\ ScriptResourceDelete
    \/ Configured /\ ScriptResourceImportState
    \/ Configured /\ ScriptSnippetResourceCreate
    \/ Configured /\ ScriptSnippetResourceRead
    \/ Configured /\ ScriptSnippetResourceUpdate
    \/ Configured /\ ScriptSnippetResourceDelete
    \/ Configured /\ ScriptSnippetResourceImportState
    \/ Configured /\ KeyStoreResourceCreate
    \/ Configured /\ KeyStoreResourceRead
    \/ Configured /\ KeyStoreResourceUpdate
    \/ Configured /\ KeyStoreResourceDelete
    \/ Configured /\ KeyStoreResourceImportState
    \/ Configured /\ ScriptDataSourceRead
    \/ Configured /\ ScriptSnippetDataSourceRead
    \/ Configured /\ KeyStoreDataSourceRead
    \/ Configured /\ ScriptsDataSourceRead
    \/ Configured /\ ScriptSnippetsDataSourceRead
    \/ Configured /\ KeyStoresDataSourceRead

SpecProvider == InitProvider /\ [][NextProvider]_vars

\* an apply that creates two resources of one kind in parallel, on a remote that keeps
\* names unique
InitConcurrent ==
    /\ kind \in Kinds
    /\ plans = {ProcPlan(kind, p) : p \in Procs}
    /\ unique = TRUE
    /\ remote = <<>>
    /\ nextId = 1
    /\ faults = 0
    /\ state = Absent
    /\ diags = NoDiags
    /\ reqs = <<>>
    /\ op = [name |-> "Init", id |-> 0, created |-> 0]
    /\ lastPlan = NoPlan
    /\ query = NoPlan
    /\ result = Absent
    /\ settings = Explicit
    /\ client = ConfigureRun(Explicit).client
    /\ procs = [p \in Procs |-> Starting(kind, p)]

NextConcurrent ==
    \/ \E p \in Procs : CreatePostStep(p)
    \/ \E p \in Procs : CreateListStep(p)

SpecConcurrent == InitConcurrent /\ [][NextConcurrent]_vars

\* one configuration per kind, never edited
InitReads ==
    /\ kind \in Kinds
    /\ plans = {CASE kind = "script" -> ScriptBase
                   [] kind = "snippet" -> SnippetBase
                   [] kind = "keystore" -> KeyStoreBase}
    /\ unique = TRUE
    /\ remote = <<>>
    /\ nextId = 1
    /\ faults = 0
    /\ state = Absent
    /\ diags = NoDiags
    /\ reqs = <<>>
    /\ op = [name |-> "Init", id |-> 0, created |-> 0]
    /\ lastPlan = NoPlan
    /\ query = NoPlan
    /\ result = Absent
    /\ settings = Explicit
    /\ client = ConfigureRun(Explicit).client
    /\ procs = NoProcs

\* a run in which the entity is created and then only read: by the resource's Read and
\* by the data sources, while other clients create and delete records
NextReads ==
    \/ ScriptResourceCreate
    \/ ScriptSnippetResourceCreate
    \/ KeyStoreResourceCreate
    \/ ScriptResourceRead
    \/ ScriptSnippetResourceRead
    \/ KeyStoreResourceRead
    \/ ScriptDataSourceRead
    \/ ScriptSnippetDataSourceRead
    \/ KeyStoreDataSourceRead
    \/ ScriptsDataSourceRead
    \/ ScriptSnippetsDataSourceRead
    \/ KeyStoresDataSourceRead
    \/ OobDelete

SpecReads == InitReads /\ [][NextReads]_vars

----------------------------------------------------------------------------
(* Properties *)

Managed == state # Absent
Since(by) == lastPlan # NoPlan /\ lastPlan.by = by
ReadBack == op.name = "Read" /\ diags = NoDiags /\ Managed
ListFields == {"args", "env_vars", "supported_platforms"}

\* C1: a script list field omitted at Create is null in the state after Create and after
\* every later Read without an out-of-band change, and one supplied as an empty list at
\* Create is an empty list there, never null.
C1_NullPreservation ==
    (kind = "script" /\ Managed /\ Since("Create")) =>
        \A f \in ListFields :
            /\ IsNull(lastPlan.data[f]) => IsNull(state[f])
            /\ lastPlan.data[f] = Empty => state[f] = Empty

C1_Witness ==
    /\ kind = "script" /\ ReadBack /\ Since("Create")
    /\ IsNull(lastPlan.data.args) /\ IsNull(state.args)
    /\ lastPlan.data.env_vars = Empty /\ state.env_vars = Empty

\* C2: after a successful Update and any number of Reads without an out-of-band change,
\* args in state is what the Update's plan had: absent, empty, or the same elements.
C2_TriStateAcrossUpdate ==
    (kind = "script" /\ Managed /\ Since("Update")) => state.args = lastPlan.data.args

ComputedFields == {"script_type", "default_timeout", "favorite", "hidden", "run_as_user"}
OnlyRequiredSet(data) ==
    /\ \A f \in ComputedFields : IsNull(data[f]) \/ IsUnknown(data[f])
    /\ \A f \in ListFields \cup {"description", "category", "syntax"} : IsNull(data[f])

\* C3: a script created with only name, shell and script_body set (the other attributes
\* null or unknown) sends default_timeout 90 in the POST body and has, after Create and
\* after reading it back, default_timeout 90, favorite false, hidden false, script_type
\* "userdefined" and args absent.
C3_CreateDefaults ==
    (kind = "script" /\ Managed /\ Since("Create") /\ OnlyRequiredSet(lastPlan.data)) =>
        /\ state.default_timeout = Val(DefaultTimeout)
        /\ state.favorite = Val(FALSE)
        /\ state.hidden = Val(FALSE)
        /\ state.script_type = Val("userdefined")
        /\ IsNull(state.args)
        /\ op.name = "Create" => reqs[1].body["default_timeout"] = JNum(DefaultTimeout)

\* C4: for every kind, a Read of an entity that is no longer on the remote (the server
\* answering the Read normally) removes the entity from state, records no error and
\* issues no DELETE.
C4_ReadOfMissing ==
    (op.name = "Read" /\ IndexOfId(remote, op.id) = 0 /\ reqs[1].status \in {200, 404}) =>
        /\ state = Absent
        /\ diags = NoDiags
        /\ \A i \in DOMAIN reqs : reqs[i].method = "GET"

C4_Witness ==
    /\ op.name = "Read" /\ kind = "keystore" /\ op.id \in 1..MaxId
    /\ IndexOfId(remote, op.id) = 0 /\ reqs[1].status = 200
    /\ state = Absent /\ diags = NoDiags

RequiredFields ==
    CASE kind = "script" -> {"name", "shell", "script_body"}
      [] kind = "snippet" -> {"name", "code"}
      [] kind = "keystore" -> {"name", "value"}

\* C5: for every kind, a Read that follows a successful Create returns the required
\* fields the Create was given (script: name, shell, script_body; snippet: name, code;
\* keystore: name, value).
C5_RoundTrip ==
    (ReadBack /\ Since("Create")) =>
        \A f \in RequiredFields : state[f] = lastPlan.data[f]

C5_Witness ==
    /\ ReadBack /\ Since("Create") /\ kind = "script" /\ Len(remote) = 2
    /\ state.id = Val(2) /\ reqs[1].status = 200
    /\ state.script_body = lastPlan.data.script_body

\* C6: after every successful Create the id in state is the id of the record the
\* Create's POST created, whatever the remote collection holds.
C6_CreatedId ==
    (op.name = "Create" /\ diags = NoDiags) => state.id = Val(op.created)

\* C7: a Create whose POST is answered with a status other than 200 reports an error
\* carrying that status, and one whose list holds no record of the planned name reports
\* the error "unable to find created"; neither writes state.
C7_CreateErrors ==
    op.name = "Create" =>
        /\ reqs[1].status \notin {0, 200} =>
              /\ diags = Diag("Unable to create, status code", reqs[1].status)
              /\ Len(reqs) = 1
              /\ state = Absent
        /\ (Len(reqs) = 2 /\ reqs[2].json = "arr"
              /\ ~NameTaken(remote, reqs[1].body["name"].v, 0)) =>
              /\ diags = Diag("Unable to find created", 0)
              /\ state = Absent

C7_Witness ==
    /\ op.name = "Create" /\ Len(reqs) = 2 /\ reqs[2].status = 200
    /\ diags = Diag("Unable to find created", 0) /\ state = Absent /\ Len(remote) = 1

\* C8: the body of every Update's PUT holds neither id nor script_type, and the id in
\* its path is the one in the state before the Update.
C8_UpdateBody ==
    [][op'.name = "Update" =>
          /\ reqs'[1].method = "PUT"
          /\ ~Has(reqs'[1].body, "id")
          /\ ~Has(reqs'[1].body, "script_type")
          /\ reqs'[1].id = ValueInt64(state.id)]_vars

C8_Witness ==
    /\ op.name = "Update" /\ kind = "script" /\ reqs[1].status = 200 /\ Since("Update")
    /\ reqs[1].id = 2 /\ IsUnknown(lastPlan.data.id) /\ ~IsNull(lastPlan.data.script_type)

AllOk(rs) == \A i \in DOMAIN rs : rs[i].status = 200

\* C9: a script or snippet Update sends the PUT first and a GET of the same id only
\* after the PUT returned 200, a keystore Update sends the PUT only; a status other than
\* 200 on either call is an error and leaves the state as it was, and the state changes
\* only when every call returned 200.
C9_UpdateSequence ==
    /\ [](op.name = "Update" =>
            /\ reqs[1].method = "PUT"
            /\ kind = "keystore" => Len(reqs) = 1
            /\ kind # "keystore" =>
                  /\ Len(reqs) = 2 <=> reqs[1].status = 200
                  /\ Len(reqs) = 2 => reqs[2].method = "GET" /\ reqs[2].id = reqs[1].id
            /\ ~AllOk(reqs) => diags # NoDiags)
    /\ [][op'.name = "Update" =>
            /\ ~AllOk(reqs') => state' = state
            /\ state' # state => AllOk(reqs') /\ diags' = NoDiags]_vars

C9_Witness ==
    /\ op.name = "Update" /\ kind = "snippet" /\ Len(reqs) = 2
    /\ reqs[1].status = 200 /\ reqs[2].status = 500 /\ diags # NoDiags /\ Managed

\* C10: a Delete sends exactly one DELETE for the id in state and succeeds exactly when
\* the status is 200 or 204; any other status, the 404 for an entity already removed
\* included, is an error.
C10_Delete ==
    [][op'.name = "Delete" =>
          /\ Len(reqs') = 1
          /\ reqs'[1].method = "DELETE"
          /\ reqs'[1].id = ValueInt64(state.id)
          /\ diags' = NoDiags <=> reqs'[1].status \in {200, 204}
          /\ state' = Absent <=> reqs'[1].status \in {200, 204}
          /\ reqs'[1].status \notin {0, 200, 204} =>
                diags' = Diag("Unable to delete, status code", reqs'[1].status)]_vars

C10_Witness ==
    /\ op.name = "Delete" /\ Len(reqs) = 1 /\ reqs[1].status = 404
    /\ diags = Diag("Unable to delete, status code", 404) /\ Managed

NonIntegers == {<<"x">>, <<>>, <<"1", "x">>}

\* the attributes a Read fills from every record of the kind
AlwaysRead ==
    CASE kind = "script" -> {"name", "shell", "script_body", "script_type",
                             "default_timeout", "favorite", "hidden", "run_as_user"}
      [] kind = "snippet" -> {"name", "code", "shell"}
      [] kind = "keystore" -> {"name", "value"}

\* C12: ImportState sends no request; given the decimal digits of n it writes a state
\* holding the id n and nothing else, given a non-integer it reports an error and writes
\* no state; the Read that follows fills the other attributes from the remote record.
C12_Import ==
    /\ op.name = "Import" =>
          /\ reqs = <<>>
          /\ \A n \in 0..MaxId :
                lastPlan.data = Decimal(n) =>
                    /\ diags = NoDiags
                    /\ state # Absent
                    /\ \A f \in DOMAIN state : state[f] = IF f = "id" THEN Val(n) ELSE Null
          /\ lastPlan.data \in NonIntegers => (diags # NoDiags /\ state = Absent)
    /\ (ReadBack /\ Since("Import")) =>
          LET rec == remote[IndexOfId(remote, op.id)]
          IN  /\ state.id = Val(op.id)
              /\ \A f \in AlwaysRead : state[f] = Val(rec[f].v)

C12_Witness ==
    /\ ReadBack /\ Since("Import") /\ kind = "script" /\ lastPlan.data = Decimal(2)
    /\ state.id = Val(2) /\ state.script_body = Val("f") /\ state.name = Val(ForeignName)


\* a data source lookup that the server answered as it should
Answered ==
    \A i \in DOMAIN reqs :
        reqs[i].status = 404 \/ (reqs[i].status = 200 /\ reqs[i].json \in {"arr", "object"})
Looked == op.name = "Lookup"
WithId == Looked /\ ~IsNull(query.id)
WithName == Looked /\ ~IsNull(query.name)
HasId(id) == IndexOfId(remote, id) # 0

C14_BothIsError ==
    (WithId /\ WithName) => (diags # NoDiags /\ result = Absent)

\* C15: a singular data source that is given neither an id nor a name reports an error
\* without issuing any HTTP request, and writes no result.
C15_NeitherIsError ==
    (Looked /\ IsNull(query.id) /\ IsNull(query.name)) =>
        /\ diags = Diag("Missing Identifier", 0)
        /\ reqs = <<>>
        /\ result = Absent

\* the keystore data source was asked with neither, over a collection that has entries
C15_Witness ==
    /\ Looked /\ IsNull(query.id) /\ IsNull(query.name)
    /\ kind = "keystore"
    /\ Len(remote) = 2
    /\ diags # NoDiags /\ reqs = <<>> /\ result = Absent

\* the positions of the records whose name is exactly the given one
NamedExactly(name) == {i \in DOMAIN remote : remote[i]["name"] = JStr(name)}

Listed == op.name = "List" /\ diags = NoDiags /\ result # Absent
Items == ElementsAs(result[ItemsField(kind)])

\* C17: on each of the three plural data sources, an id given together with any other
\* filters selects by the id alone: the output holds at most one record, the record of
\* the server's list that has this id, whether or not it satisfies the other filters,
\* and it is empty when no record has the id.
C17_IdAlone ==
    (Listed /\ ~IsNull(query.id)) =>
        LET id == ValueInt64(query.id)
        IN  /\ Len(Items) = (IF HasId(id) THEN 1 ELSE 0)
            /\ HasId(id) =>
                  /\ Items[1].id = Val(id)
                  /\ Items[1].name = Val(remote[IndexOfId(remote, id)]["name"].v)
                  /\ Items[1].name # Null

\* the script with id 1 is returned although its shell is not the filtered one
C17_Witness ==
    /\ Listed /\ kind = "script"
    /\ query.id = Val(1) /\ query.shell = Val("python")
    /\ HasId(1) /\ remote[IndexOfId(remote, 1)]["shell"] = JStr("powershell")
    /\ Len(Items) = 1
    /\ Items[1].id = Val(1) /\ Items[1].shell = Val("powershell")

\* the filters of the data source that the configuration sets, the id apart
Supplied == {f \in Range(Declared(kind)) \ {"id", ItemsField(kind)} : ~IsNull(query[f])}
\* a record of the server's list carries, in each such field, the value asked for
Satisfies(rec) ==
    \A f \in Supplied : rec[f].t \in {"str", "bool"} /\ rec[f].v = query[f].v

\* C18: on each of the three plural data sources, without an id filter, the output is
\* exactly the records of the server's list that satisfy every filter supplied, all of
\* them and not only the first one of a name, in the order of the server's list; with
\* no filter at all it is the whole list, with its length and its order.
C18_Subsequence ==
    (Listed /\ IsNull(query.id)) =>
        /\ [i \in DOMAIN Items |-> Items[i].id]
              = [i \in DOMAIN SelectSeq(remote, Satisfies) |->
                    Val(SelectSeq(remote, Satisfies)[i]["id"].v)]
        /\ Supplied = {} => Len(Items) = Len(remote)

\* two snippets carry the name asked for, and both are returned, in the order of the list
C18_Witness ==
    /\ Listed /\ kind = "snippet"
    /\ IsNull(query.id) /\ query.name = Val("a")
    /\ Len(remote) = 2
    /\ remote[1]["name"] = JStr("a") /\ remote[2]["name"] = JStr("a")
    /\ Len(Items) = 2
    /\ Items[1].id = Val(remote[1]["id"].v) /\ Items[2].id = Val(remote[2]["id"].v)

\* a script of the server's list has the favorite value and lists the platform asked for
FavoriteAndPlatform(rec) ==
    /\ ~IsNull(query.favorite) => rec["favorite"] = JBool(query.favorite.v)
    /\ ~IsNull(query.supported_platform) =>
          /\ rec["supported_platforms"].t = "arr"
          /\ \E j \in DOMAIN rec["supported_platforms"].v :
                rec["supported_platforms"].v[j] = query.supported_platform.v

\* C19: the plural scripts data source filters on favorite (equality) and on the
\* supported platform (containment) as it does on category, shell, script_type and
\* hidden: a read that is given one of these two filters, and that the server answers,
\* returns the scripts that have this favorite value / list this platform.
C19_FavoriteAndPlatform ==
    (/\ op.name = "List" /\ kind = "script" /\ Answered
     /\ IsNull(query.id)
     /\ ~IsNull(query.favorite) \/ ~IsNull(query.supported_platform)) =>
        /\ diags = NoDiags
        /\ result # Absent
        /\ \A i \in DOMAIN Items :
              \E j \in DOMAIN remote :
                  /\ Items[i].id = Val(remote[j]["id"].v)
                  /\ FavoriteAndPlatform(remote[j])
        /\ \A j \in DOMAIN remote :
              (Satisfies(remote[j]) /\ FavoriteAndPlatform(remote[j])) =>
                  \E i \in DOMAIN Items : Items[i].id = Val(remote[j]["id"].v)

\* C20: a script snippet created with shell not set in the configuration, whether Create
\* receives it as null or as unknown, is sent with shell "powershell" in the POST body
\* and has shell "powershell", a known value, in state after the Create.
C20_SnippetShellDefault ==
    (/\ kind = "snippet" /\ op.name = "Create" /\ diags = NoDiags /\ Since("Create")
     /\ IsNull(lastPlan.data.shell) \/ IsUnknown(lastPlan.data.shell)) =>
        /\ reqs[1].method = "POST"
        /\ reqs[1].body["shell"] = JStr("powershell")
        /\ state.shell = Val("powershell")

\* C27: a successful Read of a script makes state reflect the remote record in the
\* optional fields too: once args, env_vars or supported_platforms has been emptied on
\* the remote, or category or syntax cleared to the empty string, the state Read writes
\* no longer holds a value for it.
C27_ReadReflectsCleared ==
    (kind = "script" /\ ReadBack /\ HasId(op.id)) =>
        LET rec == remote[IndexOfId(remote, op.id)]
        IN  /\ \A f \in ListFields :
                  rec[f] = JArr(<<>>) => Len(ElementsAs(state[f])) = 0
            /\ \A f \in {"category", "syntax"} :
                  rec[f] = JStr("") => ValueString(state[f]) = ""

\* C28: Create is all-or-nothing towards the remote: whenever a Create reports an error,
\* the remote holds no record that this Create created, so nothing is left on the remote
\* that state does not manage.
C28_CreateAllOrNothing ==
    (op.name = "Create" /\ diags # NoDiags) =>
        /\ state = Absent
        /\ op.created # 0 => ~HasId(op.created)

\* the exchanges of the last operation that were answered with a status outside 2xx
NonSuccess == {i \in DOMAIN reqs : reqs[i].status # 0 /\ reqs[i].status \notin 200..299}

\* C24: a response with a status outside 2xx, received at any step of any operation, the
\* list call inside Create included, makes the operation report an error; the one
\* exception is a 404 answered to a resource Read.
C24_NonSuccessIsError ==
    NonSuccess # {} =>
        \/ diags # NoDiags
        \/ op.name = "Read" /\ \A i \in NonSuccess : reqs[i].status = 404

\* the exchanges an operation may take
MaxExchanges ==
    CASE op.name = "Create" -> 2
      [] op.name = "Update" -> IF kind = "keystore" THEN 1 ELSE 2
      [] op.name \in {"Read", "Delete", "Lookup", "List"} -> 1
      [] OTHER -> 0
\* an exchange that met a transport error or a status outside 2xx
FailedExchange(i) == reqs[i].status = 0 \/ i \in NonSuccess

\* C25: no request is retried. An operation takes a bounded number of exchanges (Create
\* at most POST then list; script and snippet Update at most PUT then GET; keystore
\* Update, every Read, every Delete and every data source read at most one), and the
\* first transport error or failing status is the operation's last exchange and ends it
\* with an error (a 404 answered to a resource Read ends it with the entity removed).
C25_NoRetry ==
    /\ Len(reqs) <= MaxExchanges
    /\ \A i \in DOMAIN reqs :
          FailedExchange(i) =>
              /\ i = Len(reqs)
              /\ diags # NoDiags \/ (op.name = "Read" /\ reqs[i].status = 404)

\* C30: a resource Read and the reads of the six data sources issue GET requests only,
\* never a POST, a PUT or a DELETE, and leave the remote collection as it was.
C30_ReadsOnlyGet ==
    [][op'.name \in {"Read", "Lookup", "List"} =>
          /\ \A i \in DOMAIN reqs' : reqs'[i].method = "GET"
          /\ remote' = remote
          /\ nextId' = nextId]_vars

\* the managed keystore entry is listed by the plural data source, and is still there
C30_Witness ==
    /\ Listed /\ kind = "keystore" /\ Managed
    /\ Len(reqs) = 1 /\ reqs[1].method = "GET"
    /\ Len(remote) = 1 /\ Len(Items) = 1
    /\ Items[1].id = state.id

\* C29: a Read is a no-op on a fresh state. For every kind and every configuration,
\* optional strings left unset included, a Read that follows a successful Create or
\* Update with nothing changed on the remote in between writes the state that the Create
\* or Update wrote, and a second Read in a row writes what the first one wrote.
C29_ReadIsNoOp ==
    [][(/\ op.name \in {"Create", "Update", "Read"} /\ diags = NoDiags
        /\ Managed /\ lastPlan # NoPlan
        /\ op'.name = "Read" /\ diags' = NoDiags /\ lastPlan' = lastPlan) =>
            state' = state]_vars

\* what the provider block and the environment supply
KeyInBlock == ValueString(settings.api_key) # ""
KeyInEnv == settings.env.TRMM_API_KEY # ""
EndpointInBlock == ValueString(settings.endpoint) # ""
EndpointInEnv == settings.env.TRMM_ENDPOINT # ""
AfterConfigure == op.name # "Init"

\* C21: when no API key is available, Configure reports a fatal error and hands no
\* client to the resources and data sources, so that no operation runs and no request is
\* issued; when the endpoint is not set, the base URL of the client is the fixed default
\* https://api.tactical-rmm.com.
C21_ApiKeyRequired ==
    /\ (AfterConfigure /\ ~KeyInBlock /\ ~KeyInEnv) =>
          /\ client = NoClient
          /\ op.name = "Configure" /\ diags # NoDiags
          /\ reqs = <<>> /\ state = Absent /\ result = Absent
    /\ (AfterConfigure /\ KeyInBlock /\ ~EndpointInBlock /\ ~EndpointInEnv) =>
          /\ client # NoClient
          /\ client.BaseURL = DefaultEndpoint
          /\ \A i \in DOMAIN reqs : reqs[i].base = DefaultEndpoint

\* Configure has refused a provider block that holds an empty key
C21_Witness ==
    /\ op.name = "Configure" /\ settings.api_key = Val("") /\ ~KeyInEnv
    /\ client = NoClient /\ diags = Diag("Missing API Key", 0)

\* C22: the API key and the endpoint can each come from its environment variable. With
\* api_key absent from the provider block and TRMM_API_KEY set, Configure succeeds and
\* the client carries the value of the environment; with endpoint absent from the block
\* and TRMM_ENDPOINT set, the base URL of the client is the value of the environment.
C22_Environment ==
    /\ (AfterConfigure /\ ~KeyInBlock /\ KeyInEnv) =>
          /\ client # NoClient
          /\ client.APIKey = settings.env.TRMM_API_KEY
    /\ (AfterConfigure /\ KeyInBlock /\ ~EndpointInBlock /\ EndpointInEnv) =>
          /\ client # NoClient
          /\ client.BaseURL = settings.env.TRMM_ENDPOINT

\* C23: every request of every resource and data source operation carries the header
\* X-API-KEY with the API key fixed at the provider's configuration and the header
\* Content-Type: application/json, and the client (base URL, API key) is never changed
\* once Configure has handed it out.
C23_Headers ==
    [][/\ \A i \in DOMAIN reqs' :
             /\ reqs'[i].key = ValueString(settings.api_key)
             /\ reqs'[i].content = "application/json"
       /\ Configured => client' = client
       /\ settings' = settings]_vars

\* an Update over the default endpoint: two requests, both with the configured key
C23_Witness ==
    /\ op.name = "Update" /\ diags = NoDiags /\ Len(reqs) = 2
    /\ settings.endpoint = Null
    /\ client = [BaseURL |-> DefaultEndpoint, APIKey |-> "k"]
    /\ \A i \in DOMAIN reqs : reqs[i].key = "k" /\ reqs[i].base = DefaultEndpoint

-----------------------------------------------------------------------------
(* Creates run side by side *)

Done(p) == procs[p].pc = "done"

\* C26: however the POST and the list GET of two Creates with distinct names interleave on
\* a remote that keeps names unique, a Create that finishes records the id of the record
\* its own POST made: never the id the other Create's POST made, and never the id the
\* other Create recorded.
C26_OwnId ==
    \A p \in Procs :
        Done(p) =>
            /\ procs[p].created # 0
            /\ procs[p].state.id = Val(procs[p].created)
            /\ \A q \in Procs \ {p} :
                   /\ procs[p].state.id # Val(procs[q].created)
                   /\ Done(q) => procs[p].state.id # procs[q].state.id

\* both Creates finished, and each listed the collection after both POSTs
C26_Witness ==
    /\ \A p \in Procs : Done(p) /\ procs[p].seen = 2
    /\ unique
    /\ procs[1].plan.name # procs[2].plan.name

=============================================================================
